---- MODULE Spec2Model ----
(***************************************************************************)
(* Verification model of the code-intelligence core of Bujji-Coder-AI:     *)
(* the diff engine (tools/diff_editor.py), the vector index                *)
(* (tools/rag_system.py), the incremental indexer                          *)
(* (tools/incremental_indexer.py) and the context assembler                *)
(* (tools/context_manager.py).                                             *)
(*                                                                         *)
(* Text is modelled as a sequence of tokens: a token is one character      *)
(* ("-", "+", " ", "@", ",", "/", "\n"), one run of digits ("12") or one   *)
(* word of file content or of a path ("p", "x").  A file, a diff text and  *)
(* a diff line are all token sequences, so that splitting, joining,        *)
(* prefix tests and header parsing are computed as the code computes them. *)
(***************************************************************************)
EXTENDS Integers, Sequences, FiniteSets, TLC

(***************************************************************************)
(* Bounds of the model                                                     *)
(***************************************************************************)
\* largest line number / count that a hunk header of the model carries
MaxNum == 12

(***************************************************************************)
(* Python string and list primitives                                       *)
(***************************************************************************)
NL == "\n"

Max(a, b) == IF a >= b THEN a ELSE b

Min(a, b) == IF a <= b THEN a ELSE b

\* a local variable: F applied to the value of v, v being evaluated once
With(v, F(_)) == CHOOSE r \in {F(w) : w \in {v}} : TRUE

\* index normalisation of a Python slice bound on a list of length n
PyIdx(i, n) == IF i < 0 THEN Max(0, i + n) ELSE Min(i, n)

\* s[lo:hi] with Python semantics (0-based, negative bounds count from the end)
PySlice(s, lo, hi) ==
    LET a == PyIdx(lo, Len(s))
        b == PyIdx(hi, Len(s))
    IN  IF a >= b THEN << >> ELSE SubSeq(s, a + 1, b)

\* s[lo:]
PyFrom(s, lo) == PySlice(s, lo, Len(s))

\* s[:hi]
PyUpTo(s, hi) == PySlice(s, 0, hi)

RECURSIVE Concat(_)
\* ''.join(parts) / f.writelines(parts)
Concat(parts) ==
    IF parts = << >> THEN << >> ELSE Head(parts) \o Concat(Tail(parts))

RECURSIVE Join(_, _)
\* sep.join(parts)
Join(parts, sep) ==
    IF parts = << >> THEN << >>
    ELSE IF Len(parts) = 1 THEN parts[1]
    ELSE parts[1] \o <<sep>> \o Join(Tail(parts), sep)

RECURSIVE SplitFrom(_, _, _, _)
\* the parts of s[i..] at sep, the first one after cur; one step per part
SplitFrom(s, sep, i, cur) ==
    LET seps == {j \in i..Len(s) : s[j] = sep}
    IN  IF seps = {} THEN <<cur \o SubSeq(s, i, Len(s))>>
        ELSE LET k == CHOOSE j \in seps : \A m \in seps : j <= m
             IN  <<cur \o SubSeq(s, i, k - 1)>> \o SplitFrom(s, sep, k + 1, << >>)

\* s.split(sep): always at least one part, empty parts kept
Split(s, sep) == SplitFrom(s, sep, 1, << >>)

RECURSIVE LinesFrom(_, _, _)
LinesFrom(s, i, cur) ==
    IF i > Len(s) THEN (IF cur = << >> THEN << >> ELSE <<cur>>)
    ELSE IF s[i] = NL THEN <<Append(cur, NL)>> \o LinesFrom(s, i + 1, << >>)
    ELSE LinesFrom(s, i + 1, Append(cur, s[i]))

\* f.readlines() / s.splitlines(keepends=True): every line keeps its "\n",
\* a last line without "\n" is a line of its own
ReadLines(s) == LinesFrom(s, 1, << >>)

\* line.startswith(prefix)
StartsWith(line, prefix) ==
    /\ Len(line) >= Len(prefix)
    /\ SubSeq(line, 1, Len(prefix)) = prefix

\* content.endswith('\n')
EndsWithNL(s) == s # << >> /\ s[Len(s)] = NL

IsSpace(t) == t = " "

RECURSIVE SkipSpaces(_, _)
\* first position >= i of line that is not whitespace (Len+1 when none)
SkipSpaces(line, i) ==
    IF i > Len(line) THEN i
    ELSE IF IsSpace(line[i]) THEN SkipSpaces(line, i + 1) ELSE i

RECURSIVE WordEnd(_, _)
\* first position >= i of line that is whitespace (Len+1 when none)
WordEnd(line, i) ==
    IF i > Len(line) THEN i
    ELSE IF IsSpace(line[i]) THEN i ELSE WordEnd(line, i + 1)

\* line.split(None, 2): the whitespace-separated words, the third part being
\* the unsplit rest; only the number of parts (up to 2) and parts[1] are used
SecondWord(line) ==
    LET a1 == SkipSpaces(line, 1)
        e1 == WordEnd(line, a1)
        a2 == SkipSpaces(line, e1)
        e2 == WordEnd(line, a2)
    IN  IF a1 > Len(line) \/ a2 > Len(line) THEN [found |-> FALSE, word |-> << >>]
        ELSE [found |-> TRUE, word |-> SubSeq(line, a2, e2 - 1)]

\* the decimal numerals the model reads and writes
IsNum(t) == \E n \in 0..MaxNum : ToString(n) = t

\* int(t)
ToInt(t) == CHOOSE n \in 0..MaxNum : ToString(n) = t

(***************************************************************************)
(* Diff engine: tools/diff_editor.py                                       *)
(***************************************************************************)
\* DiffOperation
ADD == "+"

REMOVE == "-"

KEEP == " "

\* DiffHunk(old_start, old_count, new_start, new_count, lines)
DiffHunk(os, oc, ns, nc, ls) ==
    [old_start |-> os, old_count |-> oc, new_start |-> ns, new_count |-> nc,
     lines |-> ls]

\* FileDiff(old_path, new_path, hunks); a path that is None or "" is << >>
FileDiff(op, np, hs) == [old_path |-> op, new_path |-> np, hunks |-> hs]

\* '/' in path
HasSlash(path) == \E i \in 1..Len(path) : path[i] = "/"

\* '/'.join(path.split('/')[1:])
DropFirstComponent(path) ==
    LET k == CHOOSE i \in 1..Len(path) :
                 path[i] = "/" /\ \A j \in 1..(i - 1) : path[j] # "/"
    IN  SubSeq(path, k + 1, Len(path))

\* DiffEditor._extract_path; None is << >>
ExtractPath(line) ==
    With(SecondWord(line), LAMBDA w :
        IF ~w.found THEN << >>
        ELSE IF HasSlash(w.word) THEN DropFirstComponent(w.word)
        ELSE w.word)

\* one "(\d+)(?:,(\d+))?" of the hunk header pattern, read at position i
ParseRange(line, i) ==
    IF i > Len(line) \/ ~IsNum(line[i])
    THEN [ok |-> FALSE, start |-> 0, count |-> 0, next |-> i]
    ELSE IF i + 2 <= Len(line) /\ line[i + 1] = "," /\ IsNum(line[i + 2])
    THEN [ok |-> TRUE, start |-> ToInt(line[i]), count |-> ToInt(line[i + 2]),
          next |-> i + 3]
    ELSE [ok |-> TRUE, start |-> ToInt(line[i]), count |-> 1, next |-> i + 1]

\* DiffEditor._parse_hunk_header: re.match of
\* @@\s+-(\d+)(?:,(\d+))?\s+\+(\d+)(?:,(\d+))?\s+@@
ParseHunkHeader(line) ==
    LET none == [ok |-> FALSE, old_start |-> 0, old_count |-> 0,
                 new_start |-> 0, new_count |-> 0]
        s1 == SkipSpaces(line, 3)
        r1 == ParseRange(line, s1 + 1)
        s2 == SkipSpaces(line, r1.next)
        r2 == ParseRange(line, s2 + 1)
        s3 == SkipSpaces(line, r2.next)
    IN  IF ~StartsWith(line, <<"@", "@">>) THEN none
        ELSE IF s1 = 3 \/ s1 > Len(line) \/ line[s1] # "-" \/ ~r1.ok THEN none
        ELSE IF s2 = r1.next \/ s2 > Len(line) \/ line[s2] # "+" \/ ~r2.ok THEN none
        ELSE IF s3 = r2.next \/ s3 + 1 > Len(line) THEN none
        ELSE IF line[s3] # "@" \/ line[s3 + 1] # "@" THEN none
        ELSE [ok |-> TRUE, old_start |-> r1.start, old_count |-> r1.count,
              new_start |-> r2.start, new_count |-> r2.count]

\* parser state before the first line: file_diffs, current_file,
\* current_hunks and current_hunk.  current_hunk is "none", "listed" (it is
\* the last element of current_hunks) or "detached" (an object of a hunk list
\* that current_hunks no longer names)
ParseStart ==
    [file_diffs |-> << >>, has_file |-> FALSE, current_file |-> FileDiff(<< >>, << >>, << >>),
     current_hunks |-> << >>, current_hunk |-> "none"]

\* the '---' branch: the previous file is appended as it is (its hunks list
\* is the empty list it was built with), a new current_file is created and
\* current_hunks is rebound to a new list; current_hunk keeps its object
ParseFileHeader(st, line, next_line, has_next) ==
    With(ExtractPath(line), LAMBDA old_path :
        With(IF has_next /\ StartsWith(next_line, <<"+", "+", "+">>)
             THEN ExtractPath(next_line) ELSE << >>,
             LAMBDA new_path :
                 [st EXCEPT
                     !.file_diffs = IF st.has_file THEN Append(@, st.current_file) ELSE @,
                     !.has_file = TRUE,
                     !.current_file = FileDiff(old_path,
                                               IF new_path # << >> THEN new_path
                                               ELSE old_path,
                                               << >>),
                     !.current_hunks = << >>,
                     !.current_hunk = IF @ = "none" THEN "none" ELSE "detached"]))

\* the '@@' branch
ParseHunkLine(st, line) ==
    With(ParseHunkHeader(line), LAMBDA h :
        IF st.has_file /\ h.ok
        THEN [st EXCEPT
                !.current_hunks = Append(@, DiffHunk(h.old_start, h.old_count,
                                                     h.new_start, h.new_count, << >>)),
                !.current_hunk = "listed"]
        ELSE st)

\* the '+', '-', ' ' branch: the line is appended to the current_hunk object
ParseDiffLine(st, line) ==
    LET op == line[1]
        content == Tail(line)
        n == Len(st.current_hunks)
    IN  IF st.current_hunk = "listed"
        THEN [st EXCEPT !.current_hunks[n].lines = Append(@, [op |-> op, content |-> content])]
        ELSE st

RECURSIVE ParseLoop(_, _, _)
\* the while loop of parse_diff over lines[i..]
ParseLoop(lines, i, st) ==
    IF i > Len(lines) THEN st
    ELSE LET line == lines[i]
             has_next == i + 1 <= Len(lines)
             next_line == IF has_next THEN lines[i + 1] ELSE << >>
         IN  IF StartsWith(line, <<"-", "-", "-">>)
             THEN ParseLoop(lines,
                            IF has_next /\ StartsWith(next_line, <<"+", "+", "+">>)
                            THEN i + 2 ELSE i + 1,
                            ParseFileHeader(st, line, next_line, has_next))
             ELSE IF StartsWith(line, <<"@", "@">>)
             THEN ParseLoop(lines, i + 1, ParseHunkLine(st, line))
             ELSE IF line # << >> /\ line[1] \in {"+", "-", " "} /\ st.current_hunk # "none"
             THEN ParseLoop(lines, i + 1, ParseDiffLine(st, line))
             ELSE ParseLoop(lines, i + 1, st)

\* DiffEditor.parse_diff: only the last file receives current_hunks
parse_diff(diff_text) ==
    With(ParseLoop(Split(diff_text, NL), 1, ParseStart), LAMBDA st :
        IF st.has_file
        THEN Append(st.file_diffs, [st.current_file EXCEPT !.hunks = st.current_hunks])
        ELSE st.file_diffs)


(***************************************************************************)
(* The workspace: a disk maps the absolute path of every existing file to  *)
(* its content.  The engine never creates a directory, so the directories  *)
(* are fixed.                                                              *)
(***************************************************************************)
\* DiffEditor.workspace_path
WorkspaceRoot == <<"/", "ws">>

\* the directories that exist: the filesystem root, the workspace root and
\* one package directory in it
Dirs == {<<"/">>, WorkspaceRoot, WorkspaceRoot \o <<"/", "pkg">>}

\* Path.parent of an absolute path
ParentDir(path) ==
    LET k == CHOOSE i \in 1..Len(path) :
                 path[i] = "/" /\ \A j \in (i + 1)..Len(path) : path[j] # "/"
    IN  IF k = 1 THEN <<"/">> ELSE SubSeq(path, 1, k - 1)

\* Path.is_absolute
IsAbsolute(path) == path # << >> /\ path[1] = "/"

\* DiffEditor._resolve_path: an absolute path is kept, a relative path is
\* joined to the workspace root (Path("") is the root itself)
ResolvePath(path) ==
    IF IsAbsolute(path) THEN path
    ELSE IF path = << >> THEN WorkspaceRoot
    ELSE WorkspaceRoot \o <<"/">> \o path

\* file_path.relative_to(self.workspace_path) does not raise
IsUnderWorkspace(path) ==
    /\ StartsWith(path, WorkspaceRoot)
    /\ Len(path) = Len(WorkspaceRoot) \/ path[Len(WorkspaceRoot) + 1] = "/"

\* str(file_path.relative_to(self.workspace_path))
RelativeTo(path) ==
    IF Len(path) = Len(WorkspaceRoot) THEN <<".">>
    ELSE SubSeq(path, Len(WorkspaceRoot) + 2, Len(path))

\* Path.exists
PathExists(d, path) == path \in DOMAIN d \/ path \in Dirs

\* open(path, 'r') succeeds
CanRead(d, path) == path \in DOMAIN d

\* open(path, 'w') succeeds: not a directory, and the parent directory exists
CanWrite(d, path) == path \notin Dirs /\ ParentDir(path) \in Dirs

\* the disk after open(path, 'w') and writelines(lines)
WriteLines(d, path, lines) ==
    [q \in DOMAIN d \cup {path} |-> IF q = path THEN Concat(lines) ELSE d[q]]

\* content + ('\n' if not content.endswith('\n') else '')
WithNL(content) == IF EndsWithNL(content) THEN content ELSE Append(content, NL)

RECURSIVE HunkNewLines(_)
\* the new_lines of _apply_hunk: ADD and KEEP lines, REMOVE lines skipped
HunkNewLines(hlines) ==
    IF hlines = << >> THEN << >>
    ELSE IF Head(hlines).op \in {ADD, KEEP}
    THEN <<WithNL(Head(hlines).content)>> \o HunkNewLines(Tail(hlines))
    ELSE HunkNewLines(Tail(hlines))

\* DiffEditor._apply_hunk: the lines [old_start-1, old_start-1+old_count) of
\* the list it is given are replaced, whatever they hold; nothing in it raises
ApplyHunk(lines, hunk) ==
    LET start_idx == hunk.old_start - 1
    IN  [success |-> TRUE,
         lines |-> PyUpTo(lines, start_idx) \o HunkNewLines(hunk.lines)
                   \o PyFrom(lines, start_idx + hunk.old_count)]

RECURSIVE ApplyHunks(_, _)
\* the hunk loop of apply_diff: every hunk is applied to the list the
\* previous hunk returned; offset is accumulated and never read
ApplyHunks(lines, hunks) ==
    IF hunks = << >> THEN [success |-> TRUE, lines |-> lines]
    ELSE With(ApplyHunk(lines, Head(hunks)), LAMBDA r :
             IF ~r.success THEN [success |-> FALSE, lines |-> lines]
             ELSE ApplyHunks(r.lines, Tail(hunks)))

\* file_diff.new_path or file_diff.old_path
TargetOf(file_diff) ==
    IF file_diff.new_path # << >> THEN file_diff.new_path ELSE file_diff.old_path

\* the failure dict of apply_diff; the disk is left as it is
ApplyFailure(d, file_path, err) ==
    [result |-> [success |-> FALSE, error |-> err, file |-> file_path, hunks_applied |-> 0],
     disk |-> d]

\* apply_diff without the test of dry_run before the write
apply_diff_always_writing(d, file_diff, dry_run) ==
    With(ResolvePath(TargetOf(file_diff)), LAMBDA file_path :
        IF ~PathExists(d, file_path) /\ file_diff.old_path # << >>
        THEN ApplyFailure(d, file_path, "File not found")
        ELSE IF PathExists(d, file_path) /\ ~CanRead(d, file_path)
        THEN ApplyFailure(d, file_path, "exception")
        ELSE With(ApplyHunks(IF PathExists(d, file_path) THEN ReadLines(d[file_path])
                             ELSE << >>,
                             file_diff.hunks),
                  LAMBDA r :
                      IF ~r.success THEN ApplyFailure(d, file_path, "hunk")
                      ELSE IF ~CanWrite(d, file_path)
                      THEN ApplyFailure(d, file_path, "exception")
                      ELSE [result |-> [success |-> TRUE, error |-> "", file |-> file_path,
                                        hunks_applied |-> Len(file_diff.hunks)],
                            disk |-> WriteLines(d, file_path, r.lines)]))

\* DiffEditor.apply_diff: the result dict and the disk it leaves
apply_diff(d, file_diff, dry_run) ==
    With(ResolvePath(TargetOf(file_diff)), LAMBDA file_path :
        IF ~PathExists(d, file_path) /\ file_diff.old_path # << >>
        THEN ApplyFailure(d, file_path, "File not found")
        ELSE IF PathExists(d, file_path) /\ ~CanRead(d, file_path)
        THEN ApplyFailure(d, file_path, "exception")
        ELSE With(ApplyHunks(IF PathExists(d, file_path) THEN ReadLines(d[file_path])
                             ELSE << >>,
                             file_diff.hunks),
                  LAMBDA r :
                      IF ~r.success THEN ApplyFailure(d, file_path, "hunk")
                      ELSE IF ~dry_run /\ ~CanWrite(d, file_path)
                      THEN ApplyFailure(d, file_path, "exception")
                      ELSE [result |-> [success |-> TRUE, error |-> "", file |-> file_path,
                                        hunks_applied |-> Len(file_diff.hunks)],
                            disk |-> IF dry_run THEN d
                                     ELSE WriteLines(d, file_path, r.lines)]))

RECURSIVE ApplyLoop(_, _, _, _)
\* the loop of apply_diffs: every file diff is applied in turn, a failure is
\* recorded and the loop goes on
ApplyLoop(d, diffs, dry_run, results) ==
    IF diffs = << >> THEN [results |-> results, disk |-> d]
    ELSE With(apply_diff(d, Head(diffs), dry_run), LAMBDA a :
             ApplyLoop(a.disk, Tail(diffs), dry_run, Append(results, a.result)))

\* DiffEditor.apply_diffs
apply_diffs(d, diffs, dry_run) ==
    With(ApplyLoop(d, diffs, dry_run, << >>), LAMBDA a :
        [success |-> \A i \in 1..Len(a.results) : a.results[i].success,
         files |-> a.results,
         disk |-> a.disk])


(***************************************************************************)
(* Validation service: tools/validation_service.py                         *)
(***************************************************************************)
\* the file names of the model whose suffix is ".py"
PyNames == {"x.py", "y.py", "n.py", "m.py"}

\* Path.suffix.lower() of the last component
Suffix(path) == IF path # << >> /\ path[Len(path)] \in PyNames THEN ".py" ELSE ""

\* ast.parse(content) succeeds: the token "!" stands for a line that does
\* not parse
PythonParses(content) == \A i \in 1..Len(content) : content[i] # "!"

\* ValidationService._validate_syntax
ValidateSyntax(content, file_ext) == file_ext # ".py" \/ PythonParses(content)

\* ValidationService._get_syntax_errors: the severities of the issues
GetSyntaxErrors(content, file_ext) ==
    IF file_ext = ".py" /\ ~PythonParses(content) THEN <<"error">> ELSE << >>

\* the outcomes of the external tools of one call: mypy is absent, passes or
\* fails; flake8 is absent, passes, or reports a W-rule or an E-rule
ToolOutcomes == [mypy : {"absent", "pass", "fail"},
                 flake8 : {"absent", "pass", "warn", "error"}]

\* ValidationService._validate_types_python; passed is "none" for None
ValidateTypesPython(tools) ==
    IF tools.mypy = "absent" THEN [passed |-> "none", issues |-> << >>]
    ELSE IF tools.mypy = "pass" THEN [passed |-> "true", issues |-> << >>]
    ELSE [passed |-> "false", issues |-> <<"error">>]

\* ValidationService._lint_python
LintPython(tools) ==
    IF tools.flake8 = "absent" THEN [passed |-> "none", issues |-> << >>]
    ELSE IF tools.flake8 = "pass" THEN [passed |-> "true", issues |-> << >>]
    ELSE IF tools.flake8 = "warn" THEN [passed |-> "false", issues |-> <<"warning">>]
    ELSE [passed |-> "false", issues |-> <<"error">>]

\* ValidationService.validate_file; valid is
\* syntax_valid and (all(severity == ERROR for issues) == False)
validate_file(file_path, content, tools) ==
    LET file_ext == Suffix(file_path)
        syntax_valid == ValidateSyntax(content, file_ext)
        syntax_issues == IF syntax_valid THEN << >> ELSE GetSyntaxErrors(content, file_ext)
        types == IF file_ext = ".py" THEN ValidateTypesPython(tools)
                 ELSE [passed |-> "none", issues |-> << >>]
        lint == IF file_ext = ".py" THEN LintPython(tools)
                ELSE [passed |-> "none", issues |-> << >>]
        issues == syntax_issues \o types.issues \o lint.issues
    IN  [valid |-> syntax_valid
                   /\ ((\A i \in 1..Len(issues) : issues[i] = "error") = FALSE),
         issues |-> issues,
         syntax_valid |-> syntax_valid,
         type_check_passed |-> types.passed,
         linter_passed |-> lint.passed]

(***************************************************************************)
(* Diff engine: validation                                                 *)
(***************************************************************************)
\* DiffEditor._get_file_content_after_diff: reading result["new_lines"] of a
\* hunk result raises KeyError, so a file diff with a hunk yields None
GetFileContentAfterDiff(d, file_diff) ==
    LET file_path == ResolvePath(TargetOf(file_diff))
        none == [some |-> FALSE, content |-> << >>]
    IN  IF PathExists(d, file_path) /\ ~CanRead(d, file_path) THEN none
        ELSE IF file_diff.hunks # << >> THEN none
        ELSE [some |-> TRUE,
              content |-> IF PathExists(d, file_path)
                          THEN Concat(ReadLines(d[file_path])) ELSE << >>]

\* the hunk checks of validate_diff for one file diff: "" when all pass
ValidateHunks(d, file_path, hunks) ==
    LET bad(h) == \/ h.old_start < 1 \/ h.new_start < 1
                  \/ PathExists(d, file_path) /\ ~CanRead(d, file_path)
                  \/ PathExists(d, file_path) /\ h.old_start > Len(ReadLines(d[file_path]))
    IN  IF \A i \in 1..Len(hunks) : ~bad(hunks[i]) THEN ""
        ELSE LET k == CHOOSE i \in 1..Len(hunks) :
                          bad(hunks[i]) /\ \A j \in 1..(i - 1) : ~bad(hunks[j])
                 h == hunks[k]
             IN  IF h.old_start < 1 \/ h.new_start < 1 THEN "Invalid hunk start line"
                 ELSE IF ~CanRead(d, file_path) THEN "exception"
                 ELSE "Hunk start line exceeds file length"

\* the deep validation of validate_diff for one file diff: TRUE when the
\* content after the diff is there and the service reports error issues
DeepValidationFails(d, file_diff, file_path, tools) ==
    With(GetFileContentAfterDiff(d, file_diff), LAMBDA after :
        /\ after.some
        /\ With(validate_file(RelativeTo(file_path), after.content, tools), LAMBDA vr :
               /\ ~vr.valid \/ \E i \in 1..Len(vr.issues) : vr.issues[i] = "error"
               /\ \E i \in 1..Len(vr.issues) : vr.issues[i] = "error"))

\* the body of the file loop of validate_diff for one file diff: "" when the
\* file diff passes
ValidateFileDiff(d, file_diff, use_validation_service, tools) ==
    With(ResolvePath(TargetOf(file_diff)), LAMBDA file_path :
        IF ~IsUnderWorkspace(file_path) THEN "exception"
        ELSE IF file_diff.old_path # << >> /\ ~PathExists(d, file_path)
        THEN "File does not exist"
        ELSE With(ValidateHunks(d, file_path, file_diff.hunks), LAMBDA hunk_error :
                 IF hunk_error # "" THEN hunk_error
                 ELSE IF use_validation_service
                         /\ DeepValidationFails(d, file_diff, file_path, tools)
                 THEN "Validation errors"
                 ELSE ""))

\* DiffEditor.validate_diff: is_valid, the error and the index of the file
\* diff that the error is about (0 when there is none).
\* use_validation_service is the argument and-ed with the service being there
validate_diff(d, diff_text, use_validation_service, tools) ==
    With(parse_diff(diff_text), LAMBDA fds :
        With([i \in 1..Len(fds) |->
                 ValidateFileDiff(d, fds[i], use_validation_service, tools)],
             LAMBDA err :
                 IF fds = << >>
                 THEN [is_valid |-> FALSE, error |-> "No valid diff found", at |-> 0]
                 ELSE IF \A i \in 1..Len(fds) : err[i] = ""
                 THEN [is_valid |-> TRUE, error |-> "", at |-> 0]
                 ELSE With(CHOOSE i \in 1..Len(fds) :
                               err[i] # "" /\ \A j \in 1..(i - 1) : err[j] = "",
                           LAMBDA k : [is_valid |-> FALSE, error |-> err[k], at |-> k])))


(***************************************************************************)
(* Diff engine: generate_diff, which is difflib.unified_diff (context 3,   *)
(* lineterm '') over the lines of the two texts, joined with "\n".         *)
(* Indices are 0-based and ranges half-open, as in difflib.                *)
(***************************************************************************)
\* the number of context lines of difflib.unified_diff
ContextLines == 3

RECURSIVE RunLen(_, _, _, _, _, _)
\* length of the common run of a[i:ahi] and b[j:bhi]
RunLen(a, b, i, j, ahi, bhi) ==
    IF i < ahi /\ j < bhi /\ a[i + 1] = b[j + 1]
    THEN 1 + RunLen(a, b, i + 1, j + 1, ahi, bhi) ELSE 0

\* SequenceMatcher.find_longest_match without junk: the longest block, the
\* one starting earliest in a and then earliest in b
FindLongestMatch(a, b, alo, ahi, blo, bhi) ==
    LET cand == (alo..(ahi - 1)) \X (blo..(bhi - 1))
        len(c) == RunLen(a, b, c[1], c[2], ahi, bhi)
    IN  IF \A c \in cand : len(c) = 0 THEN [i |-> alo, j |-> blo, k |-> 0]
        ELSE LET best == CHOOSE c \in cand :
                             /\ \A e \in cand : len(e) <= len(c)
                             /\ \A e \in cand : len(e) = len(c) =>
                                    \/ c[1] < e[1]
                                    \/ c[1] = e[1] /\ c[2] <= e[2]
             IN  [i |-> best[1], j |-> best[2], k |-> len(best)]

RECURSIVE MatchingBlocks(_, _, _, _, _, _)
\* SequenceMatcher.get_matching_blocks before the final (la, lb, 0): the
\* longest match, then the blocks to its left and to its right, sorted
MatchingBlocks(a, b, alo, ahi, blo, bhi) ==
    With(FindLongestMatch(a, b, alo, ahi, blo, bhi), LAMBDA m :
        IF m.k = 0 THEN << >>
        ELSE (IF alo < m.i /\ blo < m.j
              THEN MatchingBlocks(a, b, alo, m.i, blo, m.j) ELSE << >>)
             \o <<m>>
             \o (IF m.i + m.k < ahi /\ m.j + m.k < bhi
                 THEN MatchingBlocks(a, b, m.i + m.k, ahi, m.j + m.k, bhi) ELSE << >>))

Opcode(tag, i1, i2, j1, j2) == [tag |-> tag, i1 |-> i1, i2 |-> i2, j1 |-> j1, j2 |-> j2]

RECURSIVE OpcodesFrom(_, _, _)
\* the loop of SequenceMatcher.get_opcodes over the matching blocks
OpcodesFrom(blocks, i, j) ==
    IF blocks = << >> THEN << >>
    ELSE LET m == Head(blocks)
             tag == IF i < m.i /\ j < m.j THEN "replace"
                    ELSE IF i < m.i THEN "delete"
                    ELSE IF j < m.j THEN "insert" ELSE ""
         IN  (IF tag # "" THEN <<Opcode(tag, i, m.i, j, m.j)>> ELSE << >>)
             \o (IF m.k > 0 THEN <<Opcode("equal", m.i, m.i + m.k, m.j, m.j + m.k)>>
                 ELSE << >>)
             \o OpcodesFrom(Tail(blocks), m.i + m.k, m.j + m.k)

\* SequenceMatcher.get_opcodes
GetOpcodes(a, b) ==
    OpcodesFrom(Append(MatchingBlocks(a, b, 0, Len(a), 0, Len(b)),
                       [i |-> Len(a), j |-> Len(b), k |-> 0]), 0, 0)

RECURSIVE GroupLoop(_, _, _)
\* the loop of get_grouped_opcodes: a long equal run closes the group with
\* n lines of it and opens the next group with its last n lines
GroupLoop(codes, group, n) ==
    IF codes = << >>
    THEN (IF group # << >> /\ ~(Len(group) = 1 /\ group[1].tag = "equal")
          THEN <<group>> ELSE << >>)
    ELSE LET c == Head(codes)
         IN  IF c.tag = "equal" /\ c.i2 - c.i1 > n + n
             THEN <<Append(group, Opcode("equal", c.i1, Min(c.i2, c.i1 + n),
                                         c.j1, Min(c.j2, c.j1 + n)))>>
                  \o GroupLoop(Tail(codes),
                               <<Opcode("equal", Max(c.i1, c.i2 - n), c.i2,
                                        Max(c.j1, c.j2 - n), c.j2)>>, n)
             ELSE GroupLoop(Tail(codes), Append(group, c), n)

\* SequenceMatcher.get_grouped_opcodes(n)
\* the first opcode, when it is an equal run, keeps its last n lines
TrimFirst(codes, n) ==
    With(codes[1], LAMBDA f :
        IF f.tag = "equal"
        THEN [codes EXCEPT ![1] = Opcode("equal", Max(f.i1, f.i2 - n), f.i2,
                                         Max(f.j1, f.j2 - n), f.j2)]
        ELSE codes)

\* the last opcode, when it is an equal run, keeps its first n lines
TrimLast(codes, n) ==
    With(codes[Len(codes)], LAMBDA l :
        IF l.tag = "equal"
        THEN [codes EXCEPT ![Len(codes)] = Opcode("equal", l.i1, Min(l.i2, l.i1 + n),
                                                  l.j1, Min(l.j2, l.j1 + n))]
        ELSE codes)

GetGroupedOpcodes(a, b, n) ==
    With(GetOpcodes(a, b), LAMBDA codes0 :
        With(IF codes0 = << >> THEN <<Opcode("equal", 0, 1, 0, 1)>> ELSE codes0,
             LAMBDA codes1 :
                 With(TrimFirst(codes1, n), LAMBDA codes2 :
                     GroupLoop(TrimLast(codes2, n), << >>, n))))

\* difflib._format_range_unified
FormatRangeUnified(start, stop) ==
    LET length == stop - start
    IN  IF length = 1 THEN <<ToString(start + 1)>>
        ELSE IF length = 0 THEN <<ToString(start), ",", ToString(length)>>
        ELSE <<ToString(start + 1), ",", ToString(length)>>

\* the lines a[lo:hi], each with the prefix token in front
Prefixed(prefix, a, lo, hi) == [k \in 1..(hi - lo) |-> <<prefix>> \o a[lo + k]]

RECURSIVE OpcodeLines(_, _, _)
\* the lines unified_diff yields for the opcodes of one group
OpcodeLines(a, b, group) ==
    IF group = << >> THEN << >>
    ELSE LET c == Head(group)
         IN  (IF c.tag = "equal" THEN Prefixed(" ", a, c.i1, c.i2)
              ELSE (IF c.tag \in {"replace", "delete"}
                    THEN Prefixed("-", a, c.i1, c.i2) ELSE << >>)
                   \o (IF c.tag \in {"replace", "insert"}
                       THEN Prefixed("+", b, c.j1, c.j2) ELSE << >>))
             \o OpcodeLines(a, b, Tail(group))

RECURSIVE GroupLines(_, _, _)
\* the hunk header and the lines of every group
GroupLines(a, b, groups) ==
    IF groups = << >> THEN << >>
    ELSE With(Head(groups), LAMBDA g :
             << <<"@", "@", " ", "-">> \o FormatRangeUnified(g[1].i1, g[Len(g)].i2)
                \o <<" ", "+">> \o FormatRangeUnified(g[1].j1, g[Len(g)].j2)
                \o <<" ", "@", "@">> >>
             \o OpcodeLines(a, b, g)
             \o GroupLines(a, b, Tail(groups)))

\* DiffEditor.generate_diff(old_content, new_content, file_path)
generate_diff(old_content, new_content, file_path) ==
    With(ReadLines(old_content), LAMBDA old_lines :
        With(ReadLines(new_content), LAMBDA new_lines :
            With(GetGroupedOpcodes(old_lines, new_lines, ContextLines), LAMBDA groups :
                Join(IF groups = << >> THEN << >>
                     ELSE << <<"-", "-", "-", " ", "a", "/">> \o file_path,
                             <<"+", "+", "+", " ", "b", "/">> \o file_path >>
                          \o GroupLines(old_lines, new_lines, groups),
                     NL))))


(***************************************************************************)
(* RAG index: tools/rag_system.py.  The vector store is the set of the     *)
(* records of the chroma collection; an embedding is a function of the     *)
(* record's document and is left out.                                      *)
(***************************************************************************)
\* Config.CHUNK_SIZE, read from the environment (500 when it is not set):
\* the lines of one chunk of _chunk_by_lines
CHUNK_SIZE == 3

\* Config.CHUNK_OVERLAP, read from the environment (50 when it is not set)
CHUNK_OVERLAP == 1

\* file_path.suffix[1:] if file_path.suffix else "unknown"
LanguageOf(path) == IF Suffix(path) = ".py" THEN "py" ELSE "unknown"

\* CodeChunk of chunk_type "block"; symbol_name None is ""
CodeChunk(content, file_path, language, start_line, end_line) ==
    [content |-> content, file_path |-> file_path, language |-> language,
     chunk_type |-> "block", start_line |-> start_line, end_line |-> end_line,
     symbol_name |-> ""]

\* content.strip() is not empty
StripsToText(content) == \E i \in 1..Len(content) : content[i] \notin {" ", NL}

RECURSIVE ChunkLinesFrom(_, _, _)
\* the loop of _chunk_by_lines from index i on: for i in range(i, len(lines),
\* chunk_size - overlap), chunks whose content is blank being left out
ChunkLinesFrom(lines, i, file_path) ==
    IF i >= Len(lines) THEN << >>
    ELSE With(PySlice(lines, i, i + CHUNK_SIZE), LAMBDA chunk_lines :
             (IF StripsToText(Concat(chunk_lines))
              THEN <<CodeChunk(Concat(chunk_lines), RelativeTo(file_path),
                               LanguageOf(file_path), i + 1,
                               Min(i + Len(chunk_lines), Len(lines)))>>
              ELSE << >>)
             \o ChunkLinesFrom(lines, i + CHUNK_SIZE - CHUNK_OVERLAP, file_path))

\* RAGSystem._chunk_by_lines: [] when the file cannot be read, when range()
\* raises on a step of 0 and (an empty range) when the step is negative
ChunkByLines(d, file_path) ==
    IF ~CanRead(d, file_path) \/ CHUNK_SIZE - CHUNK_OVERLAP <= 0 THEN << >>
    ELSE ChunkLinesFrom(ReadLines(d[file_path]), 0, file_path)

\* RAGSystem._chunk_file for the files of the model: Python files whose lines
\* are plain statements, for which the analysis finds no import, class or
\* function (or does not parse), so that _chunk_python_file returns
\* _chunk_by_lines(file_path)
ChunkFile(d, file_path) == ChunkByLines(d, file_path)

\* RAGSystem._format_chunk_for_embedding of a chunk without symbol_name
FormatChunkForEmbedding(chunk) ==
    Join(<< <<"file", ":", " ">> \o chunk.file_path, chunk.content >>, NL)

\* RAGSystem._generate_chunk_id: the md5 digest is a function of the string
\* "file_path:start_line:end_line:symbol_name", modelled by the four parts
GenerateChunkId(chunk, index) ==
    [digest |-> <<chunk.file_path, chunk.start_line, chunk.end_line, chunk.symbol_name>>,
     index |-> index]

\* one record of the collection: id, document and metadata
StoreRecord(chunk, id) ==
    [id |-> id, document |-> FormatChunkForEmbedding(chunk),
     file_path |-> chunk.file_path, language |-> chunk.language,
     chunk_type |-> chunk.chunk_type, start_line |-> chunk.start_line,
     end_line |-> chunk.end_line, symbol_name |-> chunk.symbol_name]

\* collection.get(where={"file_path": {"$eq": file_path}})
StoredFor(store, file_path) == {r \in store : r.file_path = file_path}

\* collection.add: raises on an id that comes twice in the call; a record
\* whose id the collection already holds is left out
CollectionAdd(store, recs) ==
    IF \E i, j \in 1..Len(recs) : i # j /\ recs[i].id = recs[j].id
    THEN [raised |-> TRUE, store |-> store]
    ELSE [raised |-> FALSE,
          store |-> store \cup {recs[i] : i \in {k \in 1..Len(recs) :
                                     \A r \in store : r.id # recs[k].id}}]

\* the state of a RAGSystem
RagState(store, file_index_map, is_indexed) ==
    [store |-> store, file_index_map |-> file_index_map, is_indexed |-> is_indexed]

\* del m[key]
MapWithout(m, key) == [k \in DOMAIN m \ {key} |-> m[k]]

\* m[key] = value
MapWith(m, key, value) == [k \in DOMAIN m \cup {key} |-> IF k = key THEN value ELSE m[k]]

\* RAGSystem._remove_file_chunks: the status and the state it leaves
RemoveFileChunks(rag, file_str) ==
    IF StoredFor(rag.store, file_str) # {}
    THEN [status |-> "removed",
          rag |-> RagState(rag.store \ StoredFor(rag.store, file_str),
                           IF file_str \in DOMAIN rag.file_index_map
                           THEN MapWithout(rag.file_index_map, file_str)
                           ELSE rag.file_index_map,
                           rag.is_indexed)]
    ELSE [status |-> "not_found", rag |-> rag]

\* RAGSystem.remove_file_from_index
remove_file_from_index(rag, file_path) == RemoveFileChunks(rag, RelativeTo(file_path))

\* the records index_file adds for the chunks: ids carry the index in chunks
FileRecords(chunks) ==
    [i \in 1..Len(chunks) |-> StoreRecord(chunks[i], GenerateChunkId(chunks[i], i - 1))]

\* index_file after the old chunks were dealt with: chunk, embed, add
IndexFileBody(rag, d, file_path, embed_ok) ==
    With(ChunkFile(d, file_path), LAMBDA chunks :
        IF chunks = << >> THEN [status |-> "no_chunks", rag |-> rag]
        ELSE IF ~embed_ok THEN [status |-> "error", rag |-> rag]
        ELSE With(CollectionAdd(rag.store, FileRecords(chunks)), LAMBDA a :
                 IF a.raised THEN [status |-> "error", rag |-> rag]
                 ELSE [status |-> "success",
                       rag |-> RagState(a.store,
                                        MapWith(rag.file_index_map,
                                                RelativeTo(file_path), Len(chunks)),
                                        rag.is_indexed)]))

\* RAGSystem.index_file; embed_ok: client.embeddings.create does not raise
index_file(rag, d, file_path, force_reindex, embed_ok) ==
    IF RelativeTo(file_path) \in DOMAIN rag.file_index_map /\ ~force_reindex
    THEN [status |-> "already_indexed", rag |-> rag]
    ELSE IF force_reindex \/ RelativeTo(file_path) \in DOMAIN rag.file_index_map
    THEN IndexFileBody(RemoveFileChunks(rag, RelativeTo(file_path)).rag, d, file_path,
                       embed_ok)
    ELSE IndexFileBody(rag, d, file_path, embed_ok)

\* the position in batch of the first chunk whose formatted text is text
FirstWithText(batch, text) ==
    CHOOSE k \in 1..Len(batch) :
        /\ FormatChunkForEmbedding(batch[k]) = text
        /\ \A j \in 1..(k - 1) : FormatChunkForEmbedding(batch[j]) # text

\* the records index_codebase makes for all_chunks: every text is mapped
\* back to the first chunk of the batch with that text, and the id carries
\* that chunk's index in all_chunks
CodebaseRecords(all_chunks) ==
    [i \in 1..Len(all_chunks) |->
        With(FirstWithText(all_chunks, FormatChunkForEmbedding(all_chunks[i])),
             LAMBDA k : StoreRecord(all_chunks[k], GenerateChunkId(all_chunks[k], k - 1)))]

\* all_chunks of index_codebase: the chunks of the files in the order in
\* which the threads of the pool deliver them
AllChunks(d, order) == Concat([i \in 1..Len(order) |-> ChunkFile(d, order[i])])

\* the collection after "if force_reindex: self.collection.delete()": a
\* chroma build either deletes every record on a delete() without arguments
\* or raises, which is swallowed
AfterClear(store, force_reindex, delete_all) ==
    IF force_reindex /\ delete_all THEN {} ELSE store

\* RAGSystem.index_codebase over the code files in the order given;
\* embed_ok: client.embeddings.create does not raise for the batch.  The
\* chunks of the model fit one batch of 50 and none is estimated above
\* 8000 tokens.  Without a code file ThreadPoolExecutor(max_workers=0) raises.
index_codebase(rag, d, order, force_reindex, embed_ok, delete_all) ==
    IF rag.is_indexed /\ ~force_reindex
    THEN [status |-> "already_indexed", rag |-> rag]
    ELSE IF order = << >> THEN [status |-> "raised", rag |-> rag]
    ELSE With(IF embed_ok THEN CodebaseRecords(AllChunks(d, order)) ELSE << >>,
              LAMBDA recs :
                  With(AfterClear(rag.store, force_reindex, delete_all), LAMBDA cleared :
                      IF recs = << >>
                      THEN [status |-> "success",
                            rag |-> RagState(cleared, rag.file_index_map, rag.is_indexed)]
                      ELSE With(CollectionAdd(cleared, recs), LAMBDA a :
                               IF a.raised
                               THEN [status |-> "raised",
                                     rag |-> RagState(cleared, rag.file_index_map,
                                                      rag.is_indexed)]
                               ELSE [status |-> "success",
                                     rag |-> RagState(a.store, rag.file_index_map,
                                                      TRUE)])))


(***************************************************************************)
(* Incremental indexer: tools/incremental_indexer.py and the handler of    *)
(* tools/file_watcher.py.  Time is counted in ticks of half a second.      *)
(***************************************************************************)
\* time.sleep(0.5) of CodeChangeHandler._handle_file_event, in ticks
HandlerSleepTicks == 1

\* the delay of _on_file_changed, time.time() + 2, in ticks
DebounceTicks == 4

\* time.sleep(0.5) at the end of an iteration of _index_worker, in ticks
WorkerSleepTicks == 1

\* one entry of index_queue: (action, file_path, timestamp)
QueueItem(action, file_path, timestamp) ==
    [action |-> action, file_path |-> file_path, timestamp |-> timestamp]

\* a dict that kept the entry it has for a path and dropped the later one
SetTask_keeping_first(tasks, item) ==
    IF \E i \in 1..Len(tasks) : tasks[i].file_path = item.file_path
    THEN tasks
    ELSE Append(tasks, item)

\* pending_tasks[item.file_path] = (item.action, item.timestamp) on a dict
\* kept as the list of its entries in insertion order
SetTask(tasks, item) ==
    IF \E i \in 1..Len(tasks) : tasks[i].file_path = item.file_path
    THEN [i \in 1..Len(tasks) |->
             IF tasks[i].file_path = item.file_path THEN item ELSE tasks[i]]
    ELSE Append(tasks, item)

RECURSIVE DrainQueue(_, _)
\* while not index_queue.empty(): get_nowait() into pending_tasks
DrainQueue(queue, tasks) ==
    IF queue = << >> THEN tasks
    ELSE DrainQueue(Tail(queue), SetTask(tasks, Head(queue)))

\* ready_tasks: the entries with current_time >= timestamp
ReadyTasks(tasks, current_time) ==
    SelectSeq(tasks, LAMBDA t : current_time >= t.timestamp)

\* IncrementalIndexer._index_file_safe
IndexFileSafe(rag, d, file_path, embed_ok) ==
    IF ~PathExists(d, file_path) THEN remove_file_from_index(rag, file_path)
    ELSE index_file(rag, d, file_path, TRUE, embed_ok)

\* IncrementalIndexer._remove_file_safe
RemoveFileSafe(rag, file_path) == remove_file_from_index(rag, file_path)

RECURSIVE ProcessReady(_, _, _, _, _, _)
\* the loop over ready_tasks: the state of the RAG system it leaves and, in
\* log, what it did to which path at which time
ProcessReady(ready, rag, d, embed_ok, current_time, log) ==
    IF ready = << >> THEN [rag |-> rag, log |-> log]
    ELSE With(IF Head(ready).action = "index"
              THEN IndexFileSafe(rag, d, Head(ready).file_path, embed_ok)
              ELSE RemoveFileSafe(rag, Head(ready).file_path),
              LAMBDA r :
                  ProcessReady(Tail(ready), r.rag, d, embed_ok, current_time,
                               Append(log, [file_path |-> Head(ready).file_path,
                                            at |-> current_time,
                                            status |-> r.status])))


(***************************************************************************)
(* Context assembly: tools/context_manager.py, tools/token_counter.py and  *)
(* tools/conversation_summarizer.py.  A message is its role, the number of *)
(* tokens the encoding gives its content, and a tag that tells contents    *)
(* apart.                                                                  *)
(***************************************************************************)
\* ContextManager.max_context_tokens
MaxContextTokens == 10000

\* ContextManager.max_context_tokens_claude
MaxContextTokensClaude == 150000

\* ContextManager.summarization_threshold, in percent
SummarizationThresholdPct == 75

\* ContextManager.preserve_recent
PreserveRecent == 8

\* "Leave room for response" of _truncate_aggressively
ResponseReserve == 500

\* max_summary_tokens of the summarize_messages call
MaxSummaryTokens == 500

\* "approximately 4 tokens per message" of count_messages
MessageOverhead == 4

\* len(encoding.encode(role)) for the roles system, user and assistant
RoleTokens == 1

\* the tokens of "<codebase_context>\n" and "\n</codebase_context>" around
\* the RAG context
RagWrapperTokens == 11

\* the tokens of "[Previous conversation summary]: " before the summary
SummaryPrefixTokens == 6

\* the model names of the model
ModelNames == {"deepseek-coder", "claude-3-5-sonnet-20241022", "Claude-3-opus"}

\* "claude" in model.lower()
IsClaude(model) == model \in {"claude-3-5-sonnet-20241022", "Claude-3-opus"}

Message(role, tokens, tag) == [role |-> role, tokens |-> tokens, tag |-> tag]

RECURSIVE CountMessages(_)
\* TokenCounter.count_messages
CountMessages(messages) ==
    IF messages = << >> THEN 0
    ELSE RoleTokens + Head(messages).tokens + MessageOverhead
         + CountMessages(Tail(messages))

\* ConversationSummarizer.summarize_messages once the debug log is written;
\* outcome is "no_provider", "summary" (the provider answers with
\* summary_tokens tokens) or "llm_raises": the summary message (<< >> when
\* None) and the recent ones
SummarizeMessages(messages, preserve_recent, outcome, summary_tokens) ==
    IF outcome = "no_provider" \/ Len(messages) <= preserve_recent
    THEN [summary_message |-> << >>, recent_messages |-> messages]
    ELSE [summary_message |->
              IF outcome = "summary"
              THEN <<Message("system", SummaryPrefixTokens + summary_tokens, "summary")>>
              ELSE << >>,
          recent_messages |-> PySlice(messages, 0 - preserve_recent, Len(messages))]

\* ContextManager._process_conversation_history
ProcessConversationHistory(conversation_history, threshold, outcome, summary_tokens) ==
    IF conversation_history = << >> THEN << >>
    ELSE IF CountMessages(conversation_history) < threshold THEN conversation_history
    ELSE With(SummarizeMessages(conversation_history, PreserveRecent, outcome,
                                summary_tokens),
              LAMBDA s : s.summary_message \o s.recent_messages)

RECURSIVE KeepFromEnd_skipping(_, _, _)
\* a loop that went on to the older messages after one that did not fit
KeepFromEnd_skipping(other_messages, current_tokens, remaining_tokens) ==
    IF other_messages = << >> THEN << >>
    ELSE With(CountMessages(<<other_messages[Len(other_messages)]>>), LAMBDA msg_tokens :
             IF current_tokens + msg_tokens <= remaining_tokens
             THEN Append(KeepFromEnd_skipping(
                             SubSeq(other_messages, 1, Len(other_messages) - 1),
                             current_tokens + msg_tokens, remaining_tokens),
                         other_messages[Len(other_messages)])
             ELSE KeepFromEnd_skipping(SubSeq(other_messages, 1, Len(other_messages) - 1),
                                       current_tokens, remaining_tokens))

RECURSIVE KeepFromEnd(_, _, _)
\* the loop of _truncate_aggressively over reversed(other_messages): the
\* messages kept, in their order, with at most remaining_tokens tokens
KeepFromEnd(other_messages, current_tokens, remaining_tokens) ==
    IF other_messages = << >> THEN << >>
    ELSE With(CountMessages(<<other_messages[Len(other_messages)]>>), LAMBDA msg_tokens :
             IF current_tokens + msg_tokens <= remaining_tokens
             THEN Append(KeepFromEnd(SubSeq(other_messages, 1, Len(other_messages) - 1),
                                     current_tokens + msg_tokens, remaining_tokens),
                         other_messages[Len(other_messages)])
             ELSE << >>)

\* ContextManager._truncate_aggressively
TruncateAggressively(messages, max_tokens) ==
    With(SelectSeq(messages, LAMBDA m : m.role = "system"), LAMBDA system_messages :
        With(SelectSeq(messages, LAMBDA m : m.role # "system"), LAMBDA others :
            system_messages
            \o KeepFromEnd(PySlice(others, 0, Len(others) - 1), 0,
                           max_tokens - CountMessages(system_messages) - ResponseReserve)
            \o (IF others = << >> THEN << >> ELSE <<others[Len(others)]>>)))

\* the messages of assemble_context before the token count
InitialMessages(call, threshold, outcome, summary_tokens) ==
    <<Message("system", call.system_prompt, "system_prompt")>>
    \o (IF call.rag_context > 0
        THEN <<Message("system", call.rag_context + RagWrapperTokens, "rag")>>
        ELSE << >>)
    \o (IF call.facts > 0 THEN <<Message("system", call.facts, "facts")>> ELSE << >>)
    \o ProcessConversationHistory(call.conversation_history, threshold, outcome,
                                  summary_tokens)
    \o <<Message("user", call.user_message, "user_message")>>

\* max_tokens of assemble_context
MaxTokensFor(model) ==
    IF IsClaude(model) THEN MaxContextTokensClaude ELSE MaxContextTokens

\* int(max_tokens * self.summarization_threshold)
ThresholdFor(model) == (MaxTokensFor(model) * SummarizationThresholdPct) \div 100

\* summarize_messages is called, and its first statement, which opens a
\* debug log under a fixed absolute path for appending, raises
SummarizerLogRaises(call, outcome) ==
    /\ outcome = "log_raises"
    /\ call.conversation_history # << >>
    /\ CountMessages(call.conversation_history) >= ThresholdFor(call.model)

\* ContextManager.assemble_context: messages and token_count, or raised
\* when summarize_messages raises
assemble_context(call, outcome, summary_tokens) ==
    IF SummarizerLogRaises(call, outcome)
    THEN [raised |-> TRUE, messages |-> << >>, token_count |-> 0]
    ELSE With(InitialMessages(call, ThresholdFor(call.model), outcome, summary_tokens),
              LAMBDA messages :
                  IF CountMessages(messages) > MaxTokensFor(call.model)
                  THEN With(TruncateAggressively(messages, MaxTokensFor(call.model)),
                            LAMBDA kept :
                                [raised |-> FALSE, messages |-> kept,
                                 token_count |-> CountMessages(kept)])
                  ELSE [raised |-> FALSE, messages |-> messages,
                        token_count |-> CountMessages(messages)])


(***************************************************************************)
(* Inputs of the diff engine                                               *)
(***************************************************************************)
\* most file sections in one diff text
MaxSections == 2

\* most edits of workspace files made by the user around one diff
MaxEdits == 1

\* most apply_diffs calls on one parsed diff
MaxApplies == 2

\* the text whose lines are the given words, every line ended by "\n"
MkText(words) == Concat([i \in 1..Len(words) |-> <<words[i], NL>>])

ShortA == MkText(<<"p", "q">>)

ShortB == MkText(<<"q">>)

\* a text whose last line has no "\n"
ShortC == <<"p", NL, "r">>

LongA == MkText(<<"l1", "l2", "l3", "l4", "l5", "l6", "l7", "l8", "l9">>)

\* LongA with a line inserted in front and the last line replaced: two hunks
LongB == MkText(<<"l0", "l1", "l2", "l3", "l4", "l5", "l6", "l7", "l8", "m9">>)

\* the workspace-relative paths the diffs name: two files that exist at the
\* start and one that does not
PathX == <<"x.py">>

PathY == <<"y.py">>

PathN == <<"n.py">>

Targets == {PathX, PathY, PathN}

\* the contents a file of the model can take
TextsOf(target) ==
    IF target = PathX THEN {ShortA, ShortB, ShortC, LongA, LongB}
    ELSE IF target = PathY THEN {ShortA, ShortB}
    ELSE {ShortA}

DevNull == <<"/", "dev", "/", "null">>

\* a line of a text without its "\n"
StripNL(line) == IF EndsWithNL(line) THEN SubSeq(line, 1, Len(line) - 1) ELSE line

\* the hunk a unified diff carries for one group of opcodes of (a, b)
HunkOfGroup(a, b, g) ==
    LET first == g[1]
        last == g[Len(g)]
        oc == last.i2 - first.i1
        nc == last.j2 - first.j1
    IN  With(OpcodeLines(a, b, g), LAMBDA ls :
            DiffHunk(IF oc = 0 THEN first.i1 ELSE first.i1 + 1, oc,
                     IF nc = 0 THEN first.j1 ELSE first.j1 + 1, nc,
                     [k \in 1..Len(ls) |->
                         [op |-> ls[k][1], content |-> StripNL(Tail(ls[k]))]]))

\* one file section of a unified diff taking old_content to new_content:
\* the two header paths as written, the target and the hunks
SectionOf(target, create, old_content, new_content) ==
    With(ReadLines(old_content), LAMBDA a :
        With(ReadLines(new_content), LAMBDA b :
            With(GetGroupedOpcodes(a, b, ContextLines), LAMBDA groups :
                [old_hdr |-> IF create THEN DevNull ELSE <<"a", "/">> \o target,
                 new_hdr |-> <<"b", "/">> \o target,
                 target |-> target,
                 create |-> create,
                 hunks |-> [k \in 1..Len(groups) |-> HunkOfGroup(a, b, groups[k])]])))

\* the text of a hunk: its header and its lines
RenderHunk(h) ==
    << <<"@", "@", " ", "-">>
       \o (IF h.old_count = 1 THEN <<ToString(h.old_start)>>
           ELSE <<ToString(h.old_start), ",", ToString(h.old_count)>>)
       \o <<" ", "+">>
       \o (IF h.new_count = 1 THEN <<ToString(h.new_start)>>
           ELSE <<ToString(h.new_start), ",", ToString(h.new_count)>>)
       \o <<" ", "@", "@">> >>
    \o [k \in 1..Len(h.lines) |-> <<h.lines[k].op>> \o h.lines[k].content]

\* the lines of a file section
RenderSection(sec) ==
    << <<"-", "-", "-", " ">> \o sec.old_hdr, <<"+", "+", "+", " ">> \o sec.new_hdr >>
    \o Concat([k \in 1..Len(sec.hunks) |-> RenderHunk(sec.hunks[k])])

\* the unified diff text of a list of file sections
Render(secs) ==
    Concat([k \in 1..Len(secs) |->
               With(RenderSection(secs[k]), LAMBDA ls :
                   Concat([j \in 1..Len(ls) |-> Append(ls[j], NL)]))])

\* what a writer of a diff can ask of one file: change an existing or missing
\* target to a text, or create the missing one from /dev/null
SectionChoices ==
    {c \in [target : Targets, create : BOOLEAN, new : TextsOf(PathX)] :
        /\ c.new \in TextsOf(c.target)
        /\ c.create => c.target = PathN}

\* the lists of 1..MaxSections choices on distinct targets
DiffChoices ==
    UNION {{cs \in [1..n -> SectionChoices] :
               \A i, j \in 1..n : i # j => cs[i].target # cs[j].target}
           : n \in 1..MaxSections}

(***************************************************************************)
(* State: the workspace, the diff engine, the RAG system, the incremental  *)
(* indexer and the context manager                                         *)
(***************************************************************************)
VARIABLES
    disk,          \* the files of the workspace: path -> content
    edits,         \* number of user edits so far
    stage,         \* "idle", "received", "parsed", "applied"
    diff_text,     \* the diff text of the request in hand
    sections,      \* the file sections diff_text was written from (<< >> for
                   \* a generated diff)
    generated,     \* for a generate_diff text: the path, the old and the new
                   \* content it was called with
    file_diffs,    \* the list parse_diff returned
    valid_result,  \* what validate_diff returned, or NoResult
    valid_disk,    \* the disk validate_diff looked at
    apply_result,  \* what apply_diffs returned and the dry_run it was
                   \* called with, or NoResult
    applies,       \* number of apply_diffs calls on file_diffs
    dry_runs,      \* whether every apply_diffs call so far was a dry run
    pre_disk,      \* the disk before the first apply_diffs call
    store,         \* the records of the chroma collection "codebase"
    file_index_map,\* RAGSystem.file_index_map: file_str -> number of chunks
    is_indexed,    \* RAGSystem.is_indexed
    delete_all,    \* the installed chroma build deletes every record on a
                   \* collection.delete() without arguments (else it raises)
    rag_ops,       \* number of operations of the RAG system so far
    last_op,       \* the last operation of the RAG system and its status
    synced,        \* for the files whose last indexing operation completed:
                   \* the content the file had then
    now,           \* time.time(), in ticks
    running,       \* IncrementalIndexer.running
    fs_events,     \* the events the observer thread has not dispatched yet
    observer,      \* the observer thread: idle, or asleep in the handler
    index_queue,   \* IncrementalIndexer.index_queue
    pending_files, \* IncrementalIndexer.pending_files
    pending_tasks, \* pending_tasks of _index_worker, in insertion order
    worker,        \* the index thread: not started, waiting, or ended
    event_log,     \* every file event the watcher was given: path and time
    reindex_log,   \* every task the worker processed: path, time and status
    ctx_call,      \* the arguments of the last assemble_context call
    ctx_result,    \* what it returned, or that it raised
    ret_call,      \* the arguments of the last RAGSystem.retrieve call
    ret_result,    \* the list it returned
    fn_call,       \* the library call under study and its arguments
    fn_result,     \* what that call returned or wrote
    facts_table,   \* the rows of the facts table of MemoryDB, oldest first
    mem_log,       \* the calls made on the memory so far, by name
    wrapper,       \* the wrapper of retry: where it is, and its locals
    func_calls,    \* the outcome of each invocation of the wrapped function
    sleeps,        \* the argument of each time.sleep of the wrapper
    threads,       \* the threads at work on the shared objects: for each
                   \* its position in its code and its locals
    trace,         \* what the threads did so far, in order
    index_lock,    \* RAGSystem._index_lock: "free", or the thread holding it
    index_thread,  \* IncrementalIndexer.index_thread: "none", or the thread
                   \* start() created last
    graph          \* CodeGraphBuilder.graph: nodes, edges and call_graph

wsVars == <<disk, edits>>

diffVars == <<stage, diff_text, sections, generated, file_diffs, valid_result,
              valid_disk, apply_result, applies, dry_runs, pre_disk>>

ragVars == <<store, file_index_map, is_indexed, delete_all, rag_ops, last_op, synced>>

idxVars == <<now, running, fs_events, observer, index_queue, pending_files,
             pending_tasks, worker, event_log, reindex_log>>

ctxVars == <<ctx_call, ctx_result>>

retVars == <<ret_call, ret_result>>

fnVars == <<fn_call, fn_result>>

memVars == <<facts_table, mem_log>>

retryVars == <<wrapper, func_calls, sleeps>>

concVars == <<threads, trace, index_lock, index_thread, graph>>

auxVars == <<retVars, fnVars, memVars, retryVars, concVars>>

vars == <<wsVars, diffVars, ragVars, idxVars, ctxVars, auxVars>>

NoResult == [none |-> TRUE]

NotGenerated == [path |-> << >>, old |-> << >>, new |-> << >>]

\* {}
EmptyMap == [k \in {} |-> 0]

\* the workspaces the assistant can be constructed on: x.py and y.py exist
\* with one of their contents, n.py does not
Workspaces ==
    {[q \in {ResolvePath(PathX), ResolvePath(PathY)} |->
         IF q = ResolvePath(PathX) THEN a ELSE b] :
     a \in TextsOf(PathX), b \in TextsOf(PathY)}

\* DiffEditor(workspace_path): nothing received yet
NewDiffEditor ==
    /\ stage = "idle"
    /\ diff_text = << >>
    /\ sections = << >>
    /\ generated = NotGenerated
    /\ file_diffs = << >>
    /\ valid_result = NoResult
    /\ valid_disk = disk
    /\ apply_result = NoResult
    /\ applies = 0
    /\ dry_runs = TRUE
    /\ pre_disk = disk

\* RAGSystem(workspace_path) on a workspace without a vector database
NewRagSystem ==
    /\ store = {}
    /\ file_index_map = EmptyMap
    /\ is_indexed = FALSE
    /\ rag_ops = 0
    /\ last_op = NoResult
    /\ synced = EmptyMap

\* IncrementalIndexer(rag_system, workspace_path), not started
NewIndexer ==
    /\ now = 0
    /\ running = FALSE
    /\ fs_events = << >>
    /\ observer = [pc |-> "idle", path |-> << >>, wake |-> 0]
    /\ index_queue = << >>
    /\ pending_files = {}
    /\ pending_tasks = << >>
    /\ worker = [pc |-> "none", wake |-> 0]
    /\ event_log = << >>
    /\ reindex_log = << >>

\* ContextManager(), before its first call
NewContextManager ==
    /\ ctx_call = NoResult
    /\ ctx_result = NoResult

\* no retrieve call made yet
NewRetriever ==
    /\ ret_call = NoResult
    /\ ret_result = NoResult

(***************************************************************************)
(* Retry: the wrapper retry_api_call(max_attempts) puts around a function. *)
(* An invocation of the function returns, or raises an error, transient    *)
(* or permanent.                                                           *)
(***************************************************************************)
ApiDelay == 2

ApiBackoff == 2

ApiMaxAttempts == 3

\* APIError, RateLimitError, APIConnectionError
TransientErrors == {"APIError", "RateLimitError", "APIConnectionError"}

\* errors no retry can cure: a rejected key, a malformed request
PermanentErrors == {"AuthenticationError", "ValueError"}

FuncOutcomes == {"returns"} \cup TransientErrors \cup PermanentErrors

\* except exceptions as e: the tuple retry_api_call passes ends with
\* Exception, so every error is caught
Caught(outcome) == outcome \in TransientErrors \cup PermanentErrors

IdleWrapper ==
    [pc |-> "idle", max_attempts |-> 0, attempt |-> 0, current_delay |-> 0,
     last_exception |-> "none"]

NewRetry ==
    /\ wrapper = IdleWrapper
    /\ func_calls = << >>
    /\ sleeps = << >>

\* CodeGraph(): nodes and call_graph are dicts, kept as the lists of their
\* entries in insertion order; edges is a list
EmptyGraph == [nodes |-> << >>, edges |-> << >>, call_graph |-> << >>]

\* the remaining components, as constructed
NewAux ==
    /\ NewRetriever
    /\ fn_call = NoResult
    /\ fn_result = NoResult
    /\ facts_table = << >>
    /\ mem_log = << >>
    /\ NewRetry
    /\ threads = EmptyMap
    /\ trace = << >>
    /\ index_lock = "free"
    /\ index_thread = "none"
    /\ graph = EmptyGraph

(***************************************************************************)
(* The diff engine at work                                                 *)
(***************************************************************************)
InitDiff ==
    /\ disk \in Workspaces
    /\ edits = 0
    /\ NewDiffEditor
    /\ NewRagSystem
    /\ delete_all = FALSE
    /\ NewIndexer
    /\ NewContextManager
    /\ NewAux

\* the user saves a file of the workspace with another content
WriteFile(target, text) ==
    /\ edits < MaxEdits
    /\ stage \in {"idle", "received", "parsed"}
    /\ ResolvePath(target) \in DOMAIN disk
    /\ disk[ResolvePath(target)] # text
    /\ disk' = [disk EXCEPT ![ResolvePath(target)] = text]
    /\ edits' = edits + 1
    /\ UNCHANGED <<diffVars, ragVars, idxVars, ctxVars, auxVars>>

\* the content a writer of a diff sees for a target
SeenContent(d, target) ==
    IF ResolvePath(target) \in DOMAIN d THEN d[ResolvePath(target)] ELSE << >>

\* a unified diff against the current files arrives
ReceiveDiff(choices) ==
    /\ stage = "idle"
    /\ sections' = [k \in 1..Len(choices) |->
                        SectionOf(choices[k].target, choices[k].create,
                                  IF choices[k].create THEN << >>
                                  ELSE SeenContent(disk, choices[k].target),
                                  choices[k].new)]
    /\ diff_text' = Render(sections')
    /\ stage' = "received"
    /\ UNCHANGED <<disk, edits, generated, file_diffs, valid_result, valid_disk,
                   apply_result, applies, dry_runs, pre_disk>>
    /\ UNCHANGED <<ragVars, idxVars, ctxVars, auxVars>>

\* generate_diff(old_content, new_content, file_path) is called with the
\* content of an existing file as old_content
GenerateDiff(target, new_content) ==
    /\ stage = "idle"
    /\ ResolvePath(target) \in DOMAIN disk
    /\ diff_text' = generate_diff(disk[ResolvePath(target)], new_content, target)
    /\ generated' = [path |-> target, old |-> disk[ResolvePath(target)],
                     new |-> new_content]
    /\ stage' = "received"
    /\ UNCHANGED <<disk, edits, sections, file_diffs, valid_result, valid_disk,
                   apply_result, applies, dry_runs, pre_disk>>
    /\ UNCHANGED <<ragVars, idxVars, ctxVars, auxVars>>

\* parse_diff(diff_text)
ParseDiff ==
    /\ stage = "received"
    /\ file_diffs' = parse_diff(diff_text)
    /\ stage' = "parsed"
    /\ UNCHANGED <<disk, edits, diff_text, sections, generated, valid_result,
                   valid_disk, apply_result, applies, dry_runs, pre_disk>>
    /\ UNCHANGED <<ragVars, idxVars, ctxVars, auxVars>>

\* the outcomes the external tools can have in one validate_diff call; they
\* are not run when the validation service is not used
ToolRuns(use_validation_service) ==
    IF use_validation_service THEN ToolOutcomes
    ELSE {[mypy |-> "absent", flake8 |-> "absent"]}

\* validate_diff(diff_text, use_validation_service) with the outcomes of the
\* external tools of this call
ValidateDiff(use_validation_service, tools) ==
    /\ stage \in {"received", "parsed"}
    /\ valid_result = NoResult
    /\ valid_result' = validate_diff(disk, diff_text, use_validation_service, tools)
    /\ valid_disk' = disk
    /\ UNCHANGED <<disk, edits, stage, diff_text, sections, generated, file_diffs,
                   apply_result, applies, dry_runs, pre_disk>>
    /\ UNCHANGED <<ragVars, idxVars, ctxVars, auxVars>>

\* apply_diffs(file_diffs, dry_run)
ApplyDiffs(dry_run) ==
    /\ stage \in {"parsed", "applied"}
    /\ applies < MaxApplies
    /\ \E a \in {apply_diffs(disk, file_diffs, dry_run)} :
           /\ disk' = a.disk
           /\ apply_result' = [success |-> a.success, files |-> a.files,
                               dry_run |-> dry_run]
    /\ pre_disk' = IF applies = 0 THEN disk ELSE pre_disk
    /\ applies' = applies + 1
    /\ dry_runs' = (dry_runs /\ dry_run)
    /\ stage' = "applied"
    /\ UNCHANGED <<edits, diff_text, sections, generated, file_diffs, valid_result,
                   valid_disk>>
    /\ UNCHANGED <<ragVars, idxVars, ctxVars, auxVars>>

NextDiff ==
    \/ \E t \in Targets : \E text \in TextsOf(t) : WriteFile(t, text)
    \/ \E choices \in DiffChoices : ReceiveDiff(choices)
    \/ \E t \in Targets : \E text \in TextsOf(t) : GenerateDiff(t, text)
    \/ ParseDiff
    \/ \E u \in BOOLEAN : \E tools \in ToolRuns(u) : ValidateDiff(u, tools)
    \/ \E dry_run \in BOOLEAN : ApplyDiffs(dry_run)

SpecDiff == InitDiff /\ [][NextDiff]_vars

(***************************************************************************)
(* The RAG system at work                                                  *)
(***************************************************************************)
\* most operations of the RAG system in one run
MaxRagOps == 3

InitRag ==
    /\ disk \in Workspaces
    /\ edits = 0
    /\ NewDiffEditor
    /\ NewRagSystem
    /\ delete_all \in BOOLEAN
    /\ NewIndexer
    /\ NewContextManager
    /\ NewAux

\* the RAGSystem object as the operators take it
CurrentRag == RagState(store, file_index_map, is_indexed)

\* the RAGSystem object becomes rag
Installed(rag) ==
    /\ store' = rag.store
    /\ file_index_map' = rag.file_index_map
    /\ is_indexed' = rag.is_indexed

\* the orders in which the files of a set can be delivered
Orders(files) ==
    {o \in [1..Cardinality(files) -> files] :
        \A i, j \in 1..Cardinality(files) : i # j => o[i] # o[j]}

\* the content of the files in paths as the disk d has them
Snapshot(d, paths) ==
    [p \in paths |-> [present |-> p \in DOMAIN d,
                      content |-> IF p \in DOMAIN d THEN d[p] ELSE << >>]]

\* s without its entry for the path p
Forget(s, p) == [q \in DOMAIN s \ {p} |-> s[q]]

\* s with the entries of t put over it
Overlay(s, t) == [q \in DOMAIN s \cup DOMAIN t |-> IF q \in DOMAIN t THEN t[q] ELSE s[q]]

\* the user deletes a file of the workspace
DeleteFile(target) ==
    /\ edits < MaxEdits
    /\ ResolvePath(target) \in DOMAIN disk
    /\ disk' = [q \in DOMAIN disk \ {ResolvePath(target)} |-> disk[q]]
    /\ edits' = edits + 1
    /\ UNCHANGED <<diffVars, ragVars, idxVars, ctxVars, auxVars>>

\* the assistant is started again on the workspace: RAGSystem(workspace_path)
\* opens the persistent collection
Restart ==
    /\ rag_ops < MaxRagOps
    /\ rag_ops > 0
    /\ last_op.op # "restart"
    /\ file_index_map' = EmptyMap
    /\ is_indexed' = FALSE
    /\ last_op' = [op |-> "restart", file |-> << >>, status |-> "success"]
    /\ rag_ops' = rag_ops + 1
    /\ UNCHANGED <<store, delete_all, synced, wsVars, diffVars, idxVars, ctxVars, auxVars>>

\* the orders of the sets of files the workspace can hold
FileOrders == UNION {Orders(files) : files \in SUBSET {ResolvePath(t) : t \in Targets}}

\* index_codebase(force_reindex), the pool delivering the code files of the
\* workspace in order
IndexCodebase(order, force_reindex, embed_ok) ==
    /\ rag_ops < MaxRagOps
    /\ {order[i] : i \in 1..Len(order)} = DOMAIN disk
    /\ \E r \in {index_codebase(CurrentRag, disk, order, force_reindex, embed_ok,
                                delete_all)} :
           /\ Installed(r.rag)
           /\ last_op' = [op |-> "index_codebase", file |-> << >>, status |-> r.status]
           /\ synced' = IF r.status = "already_indexed" THEN synced
                        ELSE IF r.status = "success" /\ embed_ok
                        THEN Snapshot(disk, DOMAIN disk)
                        ELSE EmptyMap
    /\ rag_ops' = rag_ops + 1
    /\ UNCHANGED <<delete_all, wsVars, diffVars, idxVars, ctxVars, auxVars>>

\* index_file(file_path, force_reindex)
IndexFile(target, force_reindex, embed_ok) ==
    /\ rag_ops < MaxRagOps
    /\ \E r \in {index_file(CurrentRag, disk, ResolvePath(target), force_reindex,
                            embed_ok)} :
           /\ Installed(r.rag)
           /\ last_op' = [op |-> "index_file", file |-> ResolvePath(target),
                          status |-> r.status]
           /\ synced' = IF r.status = "already_indexed" THEN synced
                        ELSE IF r.status \in {"success", "no_chunks"}
                        THEN Overlay(synced, Snapshot(disk, {ResolvePath(target)}))
                        ELSE Forget(synced, ResolvePath(target))
    /\ rag_ops' = rag_ops + 1
    /\ UNCHANGED <<delete_all, wsVars, diffVars, idxVars, ctxVars, auxVars>>

\* remove_file_from_index(file_path)
RemoveFileFromIndex(target) ==
    /\ rag_ops < MaxRagOps
    /\ \E r \in {remove_file_from_index(CurrentRag, ResolvePath(target))} :
           /\ Installed(r.rag)
           /\ last_op' = [op |-> "remove_file_from_index", file |-> ResolvePath(target),
                          status |-> r.status]
           /\ synced' = Forget(synced, ResolvePath(target))
    /\ rag_ops' = rag_ops + 1
    /\ UNCHANGED <<delete_all, wsVars, diffVars, idxVars, ctxVars, auxVars>>

NextRag ==
    \/ \E t \in Targets : \E text \in TextsOf(t) : WriteFile(t, text)
    \/ \E t \in Targets : DeleteFile(t)
    \/ Restart
    \/ \E o \in FileOrders : \E f, e \in BOOLEAN : IndexCodebase(o, f, e)
    \/ \E t \in Targets : \E f, e \in BOOLEAN : IndexFile(t, f, e)
    \/ \E t \in Targets : RemoveFileFromIndex(t)

SpecRag == InitRag /\ [][NextRag]_vars

(***************************************************************************)
(* The incremental indexer at work.  The observer thread dispatches the    *)
(* file events one after the other; the index thread runs _index_worker.   *)
(* A thread that can run does so before time passes.                       *)
(***************************************************************************)
\* most file events in one run
MaxEvents == 5

\* the tick at which the clock of the model stops
MaxTime == 6

\* the files the user works on while the indexer runs
WatchedTargets == {PathX, PathY}

\* the content a save gives a file: the other one of two
NextText(text) == IF text = ShortA THEN ShortB ELSE ShortA

InitIdx ==
    /\ disk = [q \in {ResolvePath(t) : t \in WatchedTargets} |-> ShortA]
    /\ edits = 0
    /\ NewDiffEditor
    /\ NewRagSystem
    /\ delete_all = FALSE
    /\ NewIndexer
    /\ NewContextManager
    /\ NewAux

\* IncrementalIndexer.start(): the watcher and the index thread start
Start ==
    /\ ~running
    /\ worker.pc = "none"
    /\ running' = TRUE
    /\ worker' = [pc |-> "waiting", wake |-> now]
    /\ UNCHANGED <<now, fs_events, observer, index_queue, pending_files, pending_tasks,
                   event_log, reindex_log>>
    /\ UNCHANGED <<wsVars, diffVars, ragVars, ctxVars, auxVars>>

\* IncrementalIndexer.stop(): the observer dispatches no further event; the
\* handler in progress and the iteration in progress come to their end
Stop ==
    /\ running
    /\ running' = FALSE
    /\ fs_events' = << >>
    /\ UNCHANGED <<now, observer, index_queue, pending_files, pending_tasks, worker,
                   event_log, reindex_log>>
    /\ UNCHANGED <<wsVars, diffVars, ragVars, ctxVars, auxVars>>

\* the user saves a watched file while the watcher runs, which is given the
\* event
FileEvent(target) ==
    /\ edits < MaxEvents
    /\ running
    /\ ResolvePath(target) \in DOMAIN disk
    /\ disk' = [disk EXCEPT ![ResolvePath(target)] = NextText(@)]
    /\ edits' = edits + 1
    /\ fs_events' = Append(fs_events, ResolvePath(target))
    /\ event_log' = Append(event_log, [path |-> ResolvePath(target), at |-> now])
    /\ UNCHANGED <<now, running, observer, index_queue, pending_files, pending_tasks,
                   worker, reindex_log>>
    /\ UNCHANGED <<diffVars, ragVars, ctxVars, auxVars>>

\* the observer thread dispatches the next event: _handle_file_event goes to
\* sleep
ObserverTake ==
    /\ observer.pc = "idle"
    /\ fs_events # << >>
    /\ observer' = [pc |-> "sleeping", path |-> Head(fs_events),
                    wake |-> now + HandlerSleepTicks]
    /\ fs_events' = Tail(fs_events)
    /\ UNCHANGED <<now, running, index_queue, pending_files, pending_tasks, worker,
                   event_log, reindex_log>>
    /\ UNCHANGED <<wsVars, diffVars, ragVars, ctxVars, auxVars>>

\* the handler wakes up and calls on_change: _on_file_changed(file_path)
ObserverFire ==
    /\ observer.pc = "sleeping"
    /\ now >= observer.wake
    /\ pending_files' = pending_files \cup {RelativeTo(observer.path)}
    /\ index_queue' = Append(index_queue,
                             QueueItem("index", observer.path, now + DebounceTicks))
    /\ observer' = [pc |-> "idle", path |-> << >>, wake |-> 0]
    /\ UNCHANGED <<now, running, fs_events, pending_tasks, worker, event_log,
                   reindex_log>>
    /\ UNCHANGED <<wsVars, diffVars, ragVars, ctxVars, auxVars>>

\* one iteration of the loop of _index_worker, or its end when running is
\* False; embed_ok: the embedding calls of this iteration do not raise
WorkerIterate(embed_ok) ==
    /\ worker.pc = "waiting"
    /\ now >= worker.wake
    /\ IF ~running
       THEN /\ worker' = [pc |-> "ended", wake |-> 0]
            /\ UNCHANGED <<index_queue, pending_tasks, reindex_log, store,
                           file_index_map, is_indexed>>
       ELSE \E tasks \in {DrainQueue(index_queue, pending_tasks)} :
            \E r \in {ProcessReady(ReadyTasks(tasks, now), CurrentRag, disk, embed_ok,
                                   now, reindex_log)} :
                /\ index_queue' = << >>
                /\ pending_tasks' = SelectSeq(tasks, LAMBDA t : ~(now >= t.timestamp))
                /\ Installed(r.rag)
                /\ reindex_log' = r.log
                /\ worker' = [pc |-> "waiting", wake |-> now + WorkerSleepTicks]
    /\ UNCHANGED <<now, running, fs_events, observer, pending_files, event_log>>
    /\ UNCHANGED <<delete_all, rag_ops, last_op, synced, wsVars, diffVars, ctxVars, auxVars>>

\* a thread has something to do at the present time
ThreadEnabled ==
    \/ observer.pc = "idle" /\ fs_events # << >>
    \/ observer.pc = "sleeping" /\ now >= observer.wake
    \/ worker.pc = "waiting" /\ now >= worker.wake

\* half a second passes
Tick ==
    /\ now < MaxTime
    /\ ~ThreadEnabled
    /\ now' = now + 1
    /\ UNCHANGED <<running, fs_events, observer, index_queue, pending_files,
                   pending_tasks, worker, event_log, reindex_log>>
    /\ UNCHANGED <<wsVars, diffVars, ragVars, ctxVars, auxVars>>

NextIdx ==
    \/ Start
    \/ Stop
    \/ \E t \in WatchedTargets : FileEvent(t)
    \/ ObserverTake
    \/ ObserverFire
    \/ \E e \in BOOLEAN : WorkerIterate(e)
    \/ Tick

SpecIdx == InitIdx /\ [][NextIdx]_vars

(***************************************************************************)
(* The context manager at work.  Texts are given by their token counts.    *)
(***************************************************************************)
\* the token counts of the system prompts of the model
SystemPromptSizes == {50, 9600, 12000}

\* the token counts of the RAG contexts: none, and a few chunks
RagContextSizes == {0, 3000}

\* the token counts of the facts texts: no session, and some facts
FactsSizes == {0, 200}

\* the token counts of the user messages
UserMessageSizes == {20, 700, 11000}

\* the lengths of the conversation histories
HistoryLengths == {0, 2, 9, 12}

\* the token counts of one message of a history
HistoryMessageSizes == {100, 1000, 14000}

\* the token counts of the summaries the provider answers with
SummarySizes == {100, MaxSummaryTokens}

\* what can happen to the summarizer in one call
SummarizerOutcomes == {"no_provider", "summary", "llm_raises", "log_raises"}

\* a history of n messages of size tokens each, the user's and the
\* assistant's in turn
History(n, size) ==
    [i \in 1..n |-> Message(IF i % 2 = 1 THEN "user" ELSE "assistant", size, i)]

\* the calls of the model
ContextCalls ==
    {[system_prompt |-> s, rag_context |-> r, facts |-> f,
      conversation_history |-> History(n, h), user_message |-> u, model |-> m] :
     s \in SystemPromptSizes, r \in RagContextSizes, f \in FactsSizes,
     n \in HistoryLengths, h \in HistoryMessageSizes, u \in UserMessageSizes,
     m \in ModelNames}

InitCtx ==
    /\ disk \in Workspaces
    /\ edits = 0
    /\ NewDiffEditor
    /\ NewRagSystem
    /\ delete_all = FALSE
    /\ NewIndexer
    /\ NewContextManager
    /\ NewAux

\* assemble_context(user_message, conversation_history, rag_context,
\* system_prompt, model, session_id); a call does not depend on the calls
\* before it, and a run makes one
AssembleContext(call, outcome, summary_tokens) ==
    /\ ctx_call = NoResult
    /\ ctx_call' = call
    /\ ctx_result' = assemble_context(call, outcome, summary_tokens)
    /\ UNCHANGED <<wsVars, diffVars, ragVars, idxVars, auxVars>>

NextCtx ==
    \E call \in ContextCalls : \E outcome \in SummarizerOutcomes :
        \E summary_tokens \in SummarySizes : AssembleContext(call, outcome, summary_tokens)

SpecCtx == InitCtx /\ [][NextCtx]_vars

(***************************************************************************)
(* Retrieval: RAGSystem.retrieve and its helpers.  A chunk is what         *)
(* _format_results builds from one hit: its words stand for its content,   *)
(* symbol_name and file_path, its distance is in hundredths.  Scores are   *)
(* kept as integers: rerank scores in 1/6000, hybrid scores in 1/1000.     *)
(***************************************************************************)
MaxTopK == 2

StopWords == {"the"}

\* the queries: the sets re.findall(r'\b\w+\b', query.lower()) can give
Queries == {{"auth"}, {"auth", "login"}, {"the"}, {"login", "the"}}

Hit(id, distance, symbol, content, path) ==
    [id |-> id, distance |-> distance, symbol_name |-> symbol,
     content |-> content, file_path |-> path]

\* the records a collection can hold, with their distance to the query
ChunkPool ==
    { Hit(1, 0,   {},        {"login"},         {"core"}),
      Hit(2, 20,  {},        {"misc"},          {"core"}),
      Hit(3, 40,  {"auth"},  {"auth", "login"}, {"auth"}),
      Hit(4, 70,  {"login"}, {"login"},         {"core"}),
      Hit(5, 120, {"auth"},  {"auth"},          {"auth"}) }

\* list.sort(key=...): stable, ascending; with reverse=True descending, and
\* equal keys keep their order in both
RECURSIVE SortedBy(_, _, _)
SortedBy(seq, Key(_), reverse) ==
    IF seq = << >> THEN << >>
    ELSE With(SortedBy(PyUpTo(seq, Len(seq) - 1), Key, reverse), LAMBDA done :
         With(seq[Len(seq)], LAMBDA x :
         With({i \in 1..Len(done) :
                  IF reverse THEN Key(done[i]) < Key(x)
                             ELSE Key(done[i]) > Key(x)}, LAMBDA later :
            IF later = {} THEN Append(done, x)
            ELSE With(CHOOSE a \in later : \A b \in later : a <= b, LAMBDA at :
                    Append(PyUpTo(done, at - 1), x) \o PyFrom(done, at - 1)))))

\* the records of a collection, nearest to the query first
RECURSIVE NearestFirst(_)
NearestFirst(collection) ==
    IF collection = {} THEN << >>
    ELSE With(CHOOSE x \in collection :
                  \A y \in collection : x.distance <= y.distance, LAMBDA x :
            <<x>> \o NearestFirst(collection \ {x}))

\* collection.query(n_results=n): the n nearest records, nearest first
CollectionQuery(collection, n) == PyUpTo(NearestFirst(collection), n)

\* _format_results(results, top_k): one chunk per returned document
FormatResults(results, top_k) == results

\* _semantic_retrieve(query, top_k, file_filter)
SemanticRetrieve(collection, top_k) ==
    FormatResults(CollectionQuery(collection, top_k * 2), top_k)

\* the rerank_score _rerank_results gives a chunk, in 1/6000
RerankScore(chunk, query_words) ==
    With(IF chunk.distance = 0 THEN 100 ELSE chunk.distance, LAMBDA distance :
        (100 - Min(distance, 100)) * 24
        + (IF chunk.symbol_name # {}
           THEN (Cardinality(query_words \cap chunk.symbol_name) * 1800)
                    \div Max(Cardinality(query_words), 1)
           ELSE 0)
        + (Cardinality(query_words \cap chunk.content) * 1200)
              \div Max(Cardinality(query_words), 1)
        + (IF query_words \cap chunk.file_path # {} THEN 600 ELSE 0))

\* _rerank_results(chunks, query, top_k)
RerankResults(chunks, query_words, top_k) ==
    PyUpTo(SortedBy(chunks, LAMBDA c : RerankScore(c, query_words), TRUE), top_k)

\* the hybrid_score _hybrid_retrieve gives a chunk, in 1/1000
HybridScore(chunk, keywords) ==
    With(IF chunk.distance # 0 THEN chunk.distance ELSE 100, LAMBDA score :
    With(Cardinality({kw \in keywords :
                         kw \in chunk.content \/ kw \in chunk.symbol_name}),
         LAMBDA keyword_matches :
            IF keyword_matches > 0 THEN score * (10 - keyword_matches)
            ELSE score * 10))

\* _hybrid_retrieve(query, top_k, file_filter)
HybridRetrieve(collection, query_words, top_k) ==
    With(SemanticRetrieve(collection, top_k * 2), LAMBDA semantic_results :
    With(query_words \ StopWords, LAMBDA keywords :
        IF keywords = {} THEN RerankResults(semantic_results, query_words, top_k)
        ELSE RerankResults(
                 PyUpTo(SortedBy(semantic_results,
                                 LAMBDA c : HybridScore(c, keywords), FALSE),
                        top_k * 2),
                 query_words, top_k)))

\* the code graphs: none (never built, or build_code_graph raised), or for
\* each symbol-carrying chunk the chunks its related symbols retrieve
NoGraph == [built |-> FALSE, related |-> [c \in {} |-> << >>]]

CodeGraphs(collection) ==
    {NoGraph}
    \cup {[built |-> TRUE, related |-> [c \in {h.id : h \in collection} |-> << >>]]}
    \cup {[built |-> TRUE, related |-> [c \in {h.id : h \in collection} |-> <<r>>]] :
             r \in collection}

\* the loop of _enhance_with_graph over results[:top_k // 2]
RECURSIVE EnhanceLoop(_, _, _, _)
EnhanceLoop(head, code_graph, enhanced_results, added_symbols) ==
    IF head = << >> THEN enhanced_results
    ELSE With(head[1], LAMBDA result :
         With(IF result.symbol_name = {} THEN << >>
              ELSE PyUpTo(code_graph.related[result.id], 2), LAMBDA related :
            IF related # << >> /\ related[1].id \notin added_symbols
            THEN EnhanceLoop(Tail(head), code_graph,
                             Append(enhanced_results, related[1]),
                             added_symbols \cup {related[1].id})
            ELSE EnhanceLoop(Tail(head), code_graph, enhanced_results,
                             added_symbols)))

\* _enhance_with_graph(query, results, top_k)
EnhanceWithGraph(code_graph, query_words, results, top_k) ==
    IF ~code_graph.built THEN results
    ELSE RerankResults(
             EnhanceLoop(PyUpTo(results, top_k \div 2), code_graph, results, {}),
             query_words, top_k)

\* RAGSystem.retrieve(query, top_k, file_filter=None, use_hybrid, use_graph)
retrieve(call) ==
    IF ~call.is_indexed THEN << >>
    ELSE With(IF call.use_hybrid
              THEN HybridRetrieve(call.collection, call.query, call.top_k)
              ELSE SemanticRetrieve(call.collection, call.top_k), LAMBDA results :
            IF call.use_graph /\ call.code_graph.built
            THEN EnhanceWithGraph(call.code_graph, call.query, results, call.top_k)
            ELSE results)

(***************************************************************************)
(* SpecRet: one retrieve call on a collection                              *)
(***************************************************************************)
InitRet ==
    /\ disk \in {CHOOSE w \in Workspaces : TRUE}
    /\ edits = 0
    /\ NewDiffEditor
    /\ NewRagSystem
    /\ delete_all = FALSE
    /\ NewIndexer
    /\ NewContextManager
    /\ NewAux

Retrieve(collection, query, top_k, use_hybrid, use_graph, indexed) ==
    /\ ret_call = NoResult
    /\ \E code_graph \in CodeGraphs(collection) :
         /\ ret_call' = [collection |-> collection, query |-> query,
                         top_k |-> top_k, use_hybrid |-> use_hybrid,
                         use_graph |-> use_graph, code_graph |-> code_graph,
                         is_indexed |-> indexed]
         /\ ret_result' = retrieve(ret_call')
    /\ UNCHANGED <<wsVars, diffVars, ragVars, idxVars, ctxVars, concVars,
                   fnVars, memVars, retryVars>>

NextRet ==
    \E collection \in SUBSET ChunkPool : \E query \in Queries :
        \E top_k \in 1..MaxTopK : \E use_hybrid \in BOOLEAN :
            \E use_graph \in BOOLEAN : \E indexed \in BOOLEAN :
                Retrieve(collection, query, top_k, use_hybrid, use_graph, indexed)

SpecRet == InitRet /\ [][NextRet]_vars

(***************************************************************************)
(* The size of what is embedded.  Here a chunk is seen by its lengths in   *)
(* characters: lines holds the length of each element of                   *)
(* content.split('\n'), and symbol, parent, path and type the lengths of   *)
(* symbol_name, parent_symbol, file_path and chunk_type (0: None).         *)
(***************************************************************************)
EmbeddingTokenLimit == 8000

CharsPerToken == 4

MinSubChunkLines == 50

SizedChunk(lines, start_line, symbol, parent, path, type) ==
    [lines |-> lines, start_line |-> start_line,
     end_line |-> start_line + Len(lines) - 1,
     symbol_name |-> symbol, parent_symbol |-> parent,
     file_path |-> path, chunk_type |-> type]

\* sum(s), by halves
RECURSIVE SumSeq(_)
SumSeq(s) ==
    IF s = << >> THEN 0
    ELSE IF Len(s) = 1 THEN s[1]
    ELSE SumSeq(SubSeq(s, 1, Len(s) \div 2))
         + SumSeq(SubSeq(s, Len(s) \div 2 + 1, Len(s)))

\* len(chunk.content)
ContentLength(chunk) == SumSeq(chunk.lines) + Len(chunk.lines) - 1

\* len(self._format_chunk_for_embedding(chunk))
FormattedLength(chunk) ==
    (IF chunk.symbol_name > 0
     THEN chunk.chunk_type + 2 + chunk.symbol_name + 1
          + (IF chunk.parent_symbol > 0 THEN 3 + chunk.parent_symbol + 1 ELSE 0)
     ELSE 0)
    + 6 + chunk.file_path + 1 + ContentLength(chunk)

\* _estimate_tokens(text)
EstimateTokens(length) == length \div CharsPerToken

\* the loop of _split_large_chunk over the lines from index i on; the
\* sub-chunk that ends at line i keeps the symbol name when i = 0
RECURSIVE SubChunksFrom(_, _, _, _)
SubChunksFrom(chunk, i, current_start_line, max_lines_per_chunk) ==
    With(Len(chunk.lines) - i, LAMBDA left :
        IF left = 0 THEN << >>
        ELSE With(Min(left, max_lines_per_chunk), LAMBDA n :
                <<[SizedChunk(PySlice(chunk.lines, i, i + n), current_start_line,
                              IF n >= max_lines_per_chunk /\ i + n - 1 = 0
                              THEN chunk.symbol_name ELSE 0,
                              chunk.parent_symbol, chunk.file_path,
                              chunk.chunk_type)
                   EXCEPT !.end_line = current_start_line + n - 1]>>
                \o SubChunksFrom(chunk, i + n, current_start_line + n,
                                 max_lines_per_chunk)))

\* _split_large_chunk(chunk)
SplitLargeChunk(chunk) ==
    With(EstimateTokens(FormattedLength(chunk)), LAMBDA estimated_tokens :
        IF estimated_tokens <= EmbeddingTokenLimit THEN <<chunk>>
        ELSE With(Max(MinSubChunkLines,
                      Len(chunk.lines) \div ((estimated_tokens \div EmbeddingTokenLimit) + 1)),
                  LAMBDA max_lines_per_chunk :
                With(SubChunksFrom(chunk, 0, chunk.start_line, max_lines_per_chunk),
                     LAMBDA sub_chunks :
                        IF sub_chunks # << >> THEN sub_chunks ELSE <<chunk>>)))

\* the first pass of index_codebase over all_chunks
RECURSIVE ProcessedChunks(_)
ProcessedChunks(all_chunks) ==
    IF all_chunks = << >> THEN << >>
    ELSE IF Len(all_chunks) = 1
    THEN (IF EstimateTokens(FormattedLength(Head(all_chunks))) > EmbeddingTokenLimit
          THEN SplitLargeChunk(Head(all_chunks))
          ELSE <<Head(all_chunks)>>)
    ELSE ProcessedChunks(SubSeq(all_chunks, 1, Len(all_chunks) \div 2))
         \o ProcessedChunks(SubSeq(all_chunks, Len(all_chunks) \div 2 + 1,
                                   Len(all_chunks)))

\* the chunks index_codebase hands to collection.add
CodebaseChunksWritten(all_chunks, embed_ok) ==
    IF embed_ok THEN ProcessedChunks(all_chunks) ELSE << >>

\* the chunks index_file hands to collection.add
FileChunksWritten(chunks, embed_ok) ==
    IF embed_ok THEN chunks ELSE << >>

(***************************************************************************)
(* SpecSize: one indexing of one file's chunks, by either entry point      *)
(***************************************************************************)
LineCounts == {1, 60, 120, 500}

LineLengths == {20, 80, 700, 40000}

\* the chunks _chunk_file can give for a file: uniform lines after a first
\* line, with or without a symbol
SizedChunks ==
    {SizedChunk([k \in 1..n |-> IF k = 1 THEN first ELSE rest], 1,
                symbol, 0, 8, 5) :
        n \in LineCounts, first \in LineLengths, rest \in LineLengths,
        symbol \in {0, 12}}

InitSize ==
    /\ disk \in {CHOOSE w \in Workspaces : TRUE}
    /\ edits = 0
    /\ NewDiffEditor
    /\ NewRagSystem
    /\ delete_all = FALSE
    /\ NewIndexer
    /\ NewContextManager
    /\ NewAux

\* index_codebase on a workspace whose one file gives the chunk
IndexCodebaseSized(chunk, embed_ok) ==
    /\ fn_call = NoResult
    /\ fn_call' = [op |-> "index_codebase", chunks |-> <<chunk>>]
    /\ fn_result' = CodebaseChunksWritten(<<chunk>>, embed_ok)
    /\ UNCHANGED <<wsVars, diffVars, ragVars, idxVars, ctxVars, concVars,
                   retVars, memVars, retryVars>>

\* index_file on a file that gives the chunk
IndexFileSized(chunk, embed_ok) ==
    /\ fn_call = NoResult
    /\ fn_call' = [op |-> "index_file", chunks |-> <<chunk>>]
    /\ fn_result' = FileChunksWritten(<<chunk>>, embed_ok)
    /\ UNCHANGED <<wsVars, diffVars, ragVars, idxVars, ctxVars, concVars,
                   retVars, memVars, retryVars>>

NextSize ==
    \E chunk \in SizedChunks : \E embed_ok \in BOOLEAN :
        \/ IndexCodebaseSized(chunk, embed_ok)
        \/ IndexFileSized(chunk, embed_ok)

SpecSize == InitSize /\ [][NextSize]_vars

(***************************************************************************)
(* Memory: FactsExtractor and the facts table of MemoryDB.  The content of *)
(* a message is the sequence of its statements; a statement the            *)
(* extractor's patterns match is written by the pattern and the name.      *)
(***************************************************************************)
FactsLimit == 50

Statement(kind, name) == [kind |-> kind, name |-> name]

Fact(fact_type, content) == [fact_type |-> fact_type, content |-> content]

\* the findall of one pattern over the content, as facts
FactsOfKind(content, kind, fact_type, label) ==
    With(SelectSeq(content, LAMBDA s : s.kind = kind), LAMBDA matches :
        [i \in 1..Len(matches) |-> Fact(fact_type, <<label, matches[i].name>>)])

\* FactsExtractor._extract_from_message(content)
ExtractFromMessage(content) ==
    FactsOfKind(content, "file", "file_created", "File created: ")
    \o FactsOfKind(content, "function", "function_added", "Function added: ")

\* FactsExtractor.extract_facts(messages)
RECURSIVE ExtractFacts(_)
ExtractFacts(messages) ==
    IF messages = << >> THEN << >>
    ELSE (IF Head(messages).role = "assistant"
          THEN ExtractFromMessage(Head(messages).content) ELSE << >>)
         \o ExtractFacts(Tail(messages))

\* MemoryDB.save_facts(session_id, facts): one INSERT per fact
SaveFacts(table, session_id, new_facts) ==
    table \o [i \in 1..Len(new_facts) |->
                [session_id |-> session_id, fact_type |-> new_facts[i].fact_type,
                 content |-> new_facts[i].content]]

RECURSIVE Reversed(_)
Reversed(s) == IF s = << >> THEN << >> ELSE Append(Reversed(Tail(s)), Head(s))

\* MemoryDB.get_relevant_facts(session_id): the rows of the session, newest
\* first, at most 50
GetRelevantFacts(table, session_id) ==
    With(Reversed(SelectSeq(table, LAMBDA row : row.session_id = session_id)),
         LAMBDA rows :
            With(PyUpTo(rows, FactsLimit), LAMBDA taken :
                [i \in 1..Len(taken) |->
                    Fact(taken[i].fact_type, taken[i].content)]))

(***************************************************************************)
(* SpecMem: the calls that write the facts table                           *)
(***************************************************************************)
MaxMemOps == 3

SessionIds == {"s1", "s2"}

Statements ==
    {Statement("file", "a.py"), Statement("function", "f"), Statement("text", "")}

\* the contents of an assistant response: up to two statements
Responses ==
    {<< >>} \cup {<<s>> : s \in Statements}
            \cup {<<s, t>> : s \in Statements, t \in Statements}

UserText == <<Statement("text", "")>>

InitMem ==
    /\ disk \in {CHOOSE w \in Workspaces : TRUE}
    /\ edits = 0
    /\ NewDiffEditor
    /\ NewRagSystem
    /\ delete_all = FALSE
    /\ NewIndexer
    /\ NewContextManager
    /\ NewAux

\* ContextManager.update_memory(session_id, user_message,
\* assistant_response, conversation_history)
UpdateMemory(session_id, assistant_response) ==
    /\ Len(mem_log) < MaxMemOps
    /\ mem_log' = Append(mem_log, "update_memory")
    /\ facts_table' =
           With(ExtractFacts(<<[role |-> "user", content |-> UserText],
                               [role |-> "assistant", content |-> assistant_response]>>),
                LAMBDA new_facts :
                    IF new_facts # << >>
                    THEN SaveFacts(facts_table, session_id, new_facts)
                    ELSE facts_table)
    /\ UNCHANGED <<wsVars, diffVars, ragVars, idxVars, ctxVars, concVars,
                   retVars, fnVars, retryVars>>

\* ContextManager.assemble_context with a session_id: the facts
\* _process_conversation_history saves when the history is at or over the
\* summarization threshold
AssembleContextFacts(session_id, conversation_history, over_threshold) ==
    /\ Len(mem_log) < MaxMemOps
    /\ mem_log' = Append(mem_log, "assemble_context")
    /\ facts_table' =
           With(ExtractFacts(conversation_history), LAMBDA facts :
                    IF over_threshold /\ facts # << >>
                    THEN SaveFacts(facts_table, session_id, facts)
                    ELSE facts_table)
    /\ UNCHANGED <<wsVars, diffVars, ragVars, idxVars, ctxVars, concVars,
                   retVars, fnVars, retryVars>>

NextMem ==
    \E session_id \in SessionIds : \E response \in Responses :
        \/ UpdateMemory(session_id, response)
        \/ \E over_threshold \in BOOLEAN :
              AssembleContextFacts(session_id,
                                   <<[role |-> "user", content |-> UserText],
                                     [role |-> "assistant", content |-> response]>>,
                                   over_threshold)

SpecMem == InitMem /\ [][NextMem]_vars

(***************************************************************************)
(* SpecVal: one ValidationService.validate_file call                       *)
(***************************************************************************)
\* contents that parse as Python and contents that do not
ValidatedContents ==
    {ShortA, ShortB, ShortC, LongA, MkText(<<"!">>), MkText(<<"p", "!">>)}

ValidatedPaths == {PathX, PathY, <<"notes.txt">>}

InitVal ==
    /\ disk \in {CHOOSE w \in Workspaces : TRUE}
    /\ edits = 0
    /\ NewDiffEditor
    /\ NewRagSystem
    /\ delete_all = FALSE
    /\ NewIndexer
    /\ NewContextManager
    /\ NewAux

ValidateFile(file_path, content, tools) ==
    /\ fn_call = NoResult
    /\ fn_call' = [op |-> "validate_file", file_path |-> file_path,
                   content |-> content, tools |-> tools]
    /\ fn_result' = validate_file(file_path, content, tools)
    /\ UNCHANGED <<wsVars, diffVars, ragVars, idxVars, ctxVars, concVars,
                   retVars, memVars, retryVars>>

NextVal ==
    \E file_path \in ValidatedPaths : \E content \in ValidatedContents :
        \E tools \in ToolOutcomes : ValidateFile(file_path, content, tools)

SpecVal == InitVal /\ [][NextVal]_vars

(***************************************************************************)
(* SpecSum: one ConversationSummarizer.summarize_messages call             *)
(***************************************************************************)
DefaultPreserveRecent == 5

InitSum ==
    /\ disk \in {CHOOSE w \in Workspaces : TRUE}
    /\ edits = 0
    /\ NewDiffEditor
    /\ NewRagSystem
    /\ delete_all = FALSE
    /\ NewIndexer
    /\ NewContextManager
    /\ NewAux

\* summarize_messages(messages, max_summary_tokens, preserve_recent); the
\* call raises when its debug log cannot be opened
SummarizeCall(messages, preserve_recent, outcome, summary_tokens) ==
    /\ fn_call = NoResult
    /\ fn_call' = [op |-> "summarize_messages", messages |-> messages,
                   preserve_recent |-> preserve_recent, outcome |-> outcome,
                   summary_tokens |-> summary_tokens]
    /\ fn_result' =
           IF outcome = "log_raises" THEN [raised |-> TRUE]
           ELSE With(SummarizeMessages(messages, preserve_recent, outcome,
                                       summary_tokens), LAMBDA r :
                    [raised |-> FALSE, summary_message |-> r.summary_message,
                     recent_messages |-> r.recent_messages])
    /\ UNCHANGED <<wsVars, diffVars, ragVars, idxVars, ctxVars, concVars,
                   retVars, memVars, retryVars>>

NextSum ==
    \E n \in HistoryLengths : \E size \in HistoryMessageSizes :
        \E preserve_recent \in {DefaultPreserveRecent, PreserveRecent} :
            \E outcome \in SummarizerOutcomes : \E summary_tokens \in SummarySizes :
                SummarizeCall(History(n, size), preserve_recent, outcome,
                              summary_tokens)

SpecSum == InitSum /\ [][NextSum]_vars

(***************************************************************************)
(* SpecRetry: one wrapped call, attempt by attempt                         *)
(***************************************************************************)
InitRetry ==
    /\ disk \in {CHOOSE w \in Workspaces : TRUE}
    /\ edits = 0
    /\ NewDiffEditor
    /\ NewRagSystem
    /\ delete_all = FALSE
    /\ NewIndexer
    /\ NewContextManager
    /\ NewAux

\* wrapper(*args, **kwargs) is entered: current_delay = delay, and the loop
\* starts at attempt 1 (with max_attempts < 1 it has no iteration)
CallWrapped(max_attempts) ==
    /\ wrapper.pc = "idle"
    /\ wrapper' = [pc |-> "attempting", max_attempts |-> max_attempts,
                   attempt |-> 1, current_delay |-> ApiDelay,
                   last_exception |-> "none"]
    /\ UNCHANGED <<func_calls, sleeps>>
    /\ UNCHANGED <<wsVars, diffVars, ragVars, idxVars, ctxVars, concVars,
                   retVars, fnVars, memVars>>

\* one iteration up to the sleep: func is invoked; its result is returned,
\* or its error is caught and raised again at the last attempt
Attempt(outcome) ==
    /\ wrapper.pc = "attempting"
    /\ func_calls' = Append(func_calls, outcome)
    /\ wrapper' =
           IF ~Caught(outcome) THEN [wrapper EXCEPT !.pc = "returned"]
           ELSE IF wrapper.attempt = wrapper.max_attempts
           THEN [wrapper EXCEPT !.pc = "raised", !.last_exception = outcome]
           ELSE [wrapper EXCEPT !.pc = "sleeping", !.last_exception = outcome]
    /\ UNCHANGED sleeps
    /\ UNCHANGED <<wsVars, diffVars, ragVars, idxVars, ctxVars, concVars,
                   retVars, fnVars, memVars>>

\* time.sleep(current_delay); current_delay *= backoff; the next iteration
Sleep ==
    /\ wrapper.pc = "sleeping"
    /\ sleeps' = Append(sleeps, wrapper.current_delay)
    /\ wrapper' = [wrapper EXCEPT !.pc = "attempting",
                                  !.attempt = wrapper.attempt + 1,
                                  !.current_delay = wrapper.current_delay * ApiBackoff]
    /\ UNCHANGED func_calls
    /\ UNCHANGED <<wsVars, diffVars, ragVars, idxVars, ctxVars, concVars,
                   retVars, fnVars, memVars>>

NextRetry ==
    \/ \E max_attempts \in 1..ApiMaxAttempts : CallWrapped(max_attempts)
    \/ \E outcome \in FuncOutcomes : Attempt(outcome)
    \/ Sleep

SpecRetry == InitRetry /\ [][NextRetry]_vars

(***************************************************************************)
(* SpecFrame: a diff is received, previewed, validated and applied, dry    *)
(* or not                                                                  *)
(***************************************************************************)
\* the additions, deletions and modifications preview_diff counts in the
\* hunks of a file diff
ChangesOf(hunks) ==
    With(Concat([k \in 1..Len(hunks) |-> hunks[k].lines]), LAMBDA all_lines :
        [additions |-> Len(SelectSeq(all_lines, LAMBDA l : l.op = ADD)),
         deletions |-> Len(SelectSeq(all_lines, LAMBDA l : l.op = REMOVE)),
         modifications |->
             Len(SelectSeq(all_lines,
                           LAMBDA l : l.op = KEEP /\ StripsToText(l.content)))])

\* DiffEditor.preview_diff(diff_text)
preview_diff(text) ==
    With(parse_diff(text), LAMBDA parsed :
        [files_affected |-> Len(parsed),
         files |-> [k \in 1..Len(parsed) |->
                       [file |-> TargetOf(parsed[k]),
                        hunks |-> Len(parsed[k].hunks),
                        changes |-> ChangesOf(parsed[k].hunks)]]])

PreviewDiff ==
    /\ stage \in {"received", "parsed", "applied"}
    /\ fn_call = NoResult
    /\ fn_call' = [op |-> "preview_diff", diff_text |-> diff_text]
    /\ fn_result' = preview_diff(diff_text)
    /\ UNCHANGED <<wsVars, diffVars, ragVars, idxVars, ctxVars, concVars,
                   retVars, memVars, retryVars>>

NextFrame ==
    \/ \E choices \in DiffChoices : ReceiveDiff(choices)
    \/ ParseDiff
    \/ PreviewDiff
    \/ \E u \in BOOLEAN : \E tools \in ToolRuns(u) : ValidateDiff(u, tools)
    \/ \E dry_run \in BOOLEAN : ApplyDiffs(dry_run)

SpecFrame == InitDiff /\ [][NextFrame]_vars

(***************************************************************************)
(* Index operations run by threads on one RAGSystem: the index thread of   *)
(* the incremental indexer in _index_file_safe, a caller of                *)
(* index_file_now, and the threads POST /api/index starts for              *)
(* index_codebase.  A step is one call on the collection, or the work      *)
(* between two such calls.  No statement of the repository acquires        *)
(* RAGSystem._index_lock, so no step changes index_lock.                   *)
(***************************************************************************)
\* the threads that run _index_file_safe
FileThreads == {"worker", "caller"}

\* the threads index_background runs in, one for each accepted request
FullThreads == {"full1", "full2"}

\* a thread: where it is, the file it indexes, whether it was asked to
\* force, and the records it is about to add
Thread(pc, file, force, recs) == [pc |-> pc, file |-> file, force |-> force, recs |-> recs]

\* a thread that finished, with the status of its operation
Finished(status) == Thread("done", << >>, FALSE, << >>)

\* the thread t is at pc
At(t, pc) == t \in DOMAIN threads /\ threads[t].pc = pc

\* the threads now inside index_codebase
FullRunning == {t \in FullThreads : t \in DOMAIN threads /\ threads[t].pc # "done"}

InitLock ==
    /\ disk \in {CHOOSE w \in Workspaces : TRUE}
    /\ edits = 0
    /\ NewDiffEditor
    /\ NewRagSystem
    /\ delete_all \in BOOLEAN
    /\ NewIndexer
    /\ NewContextManager
    /\ NewAux

\* _index_file_safe(file_path) is entered by the index thread or by a caller
\* of index_file_now: a file that does not exist is removed from the index,
\* for another index_file(file_path, force_reindex=True) begins
IndexFileSafeBegin(t, target) ==
    /\ t \notin DOMAIN threads
    /\ IF ~PathExists(disk, ResolvePath(target))
       THEN /\ Installed(remove_file_from_index(CurrentRag, ResolvePath(target)).rag)
            /\ threads' = MapWith(threads, t, Finished("removed"))
       ELSE /\ threads' = MapWith(threads, t,
                                  Thread("remove", ResolvePath(target), TRUE, << >>))
            /\ UNCHANGED <<store, file_index_map, is_indexed>>
    /\ UNCHANGED <<graph, trace, index_lock, index_thread, delete_all, rag_ops, last_op, synced>>
    /\ UNCHANGED <<wsVars, diffVars, idxVars, ctxVars, retVars, fnVars, memVars, retryVars>>

\* index_file: self._remove_file_chunks(file_str)
IndexFileRemoveOld(t) ==
    /\ At(t, "remove")
    /\ Installed(RemoveFileChunks(CurrentRag, RelativeTo(threads[t].file)).rag)
    /\ threads' = [threads EXCEPT ![t].pc = "chunk"]
    /\ UNCHANGED <<graph, trace, index_lock, index_thread, delete_all, rag_ops, last_op, synced>>
    /\ UNCHANGED <<wsVars, diffVars, idxVars, ctxVars, retVars, fnVars, memVars, retryVars>>

\* index_file: chunks = self._chunk_file(file_path), then the embeddings
\* request and the ids and metadatas of the records
IndexFileChunk(t, embed_ok) ==
    /\ At(t, "chunk")
    /\ threads' = [threads EXCEPT ![t] =
           With(ChunkFile(disk, threads[t].file), LAMBDA chunks :
               IF chunks = << >> THEN Finished("no_chunks")
               ELSE IF ~embed_ok THEN Finished("error")
               ELSE Thread("add", threads[t].file, TRUE, FileRecords(chunks)))]
    /\ UNCHANGED <<graph, trace, index_lock, index_thread, ragVars>>
    /\ UNCHANGED <<wsVars, diffVars, idxVars, ctxVars, retVars, fnVars, memVars, retryVars>>

\* index_file: self.collection.add(...) and the update of file_index_map
IndexFileAdd(t) ==
    /\ At(t, "add")
    /\ t \in FileThreads
    /\ \E a \in {CollectionAdd(store, threads[t].recs)} :
           /\ store' = a.store
           /\ file_index_map' =
                  IF a.raised THEN file_index_map
                  ELSE MapWith(file_index_map, RelativeTo(threads[t].file),
                               Len(threads[t].recs))
           /\ threads' = [threads EXCEPT ![t] =
                              Finished(IF a.raised THEN "error" ELSE "success")]
    /\ UNCHANGED <<graph, trace, index_lock, index_thread, is_indexed, delete_all, rag_ops, last_op, synced>>
    /\ UNCHANGED <<wsVars, diffVars, idxVars, ctxVars, retVars, fnVars, memVars, retryVars>>

\* POST /api/index?force=...: answered "already_indexing" when the lock is
\* held, and else index_background is started in a thread of its own
PostIndex(force) ==
    /\ \E t \in FullThreads : t \notin DOMAIN threads
    /\ IF index_lock # "free"
       THEN /\ trace' = Append(trace, [status |-> "already_indexing",
                                       running |-> FullRunning, started |-> {}])
            /\ UNCHANGED threads
       ELSE \E t \in {CHOOSE u \in FullThreads : u \notin DOMAIN threads} :
            /\ trace' = Append(trace, [status |-> "started",
                                       running |-> FullRunning, started |-> {t}])
            /\ threads' = MapWith(threads, t, Thread("scan", << >>, force, << >>))
    /\ UNCHANGED <<graph, index_lock, index_thread, ragVars>>
    /\ UNCHANGED <<wsVars, diffVars, idxVars, ctxVars, retVars, fnVars, memVars, retryVars>>

\* index_codebase up to "Storing in vector database": the is_indexed test,
\* the chunks of the code files as the pool delivers them, the embeddings
IndexCodebaseScan(t, order, embed_ok) ==
    /\ At(t, "scan")
    /\ {order[i] : i \in 1..Len(order)} = DOMAIN disk
    /\ threads' = [threads EXCEPT ![t] =
           IF is_indexed /\ ~threads[t].force THEN Finished("already_indexed")
           ELSE IF order = << >> THEN Finished("raised")
           ELSE Thread("clear", << >>, threads[t].force,
                       IF embed_ok THEN CodebaseRecords(AllChunks(disk, order))
                       ELSE << >>)]
    /\ UNCHANGED <<graph, trace, index_lock, index_thread, ragVars>>
    /\ UNCHANGED <<wsVars, diffVars, idxVars, ctxVars, retVars, fnVars, memVars, retryVars>>

\* index_codebase: if force_reindex: self.collection.delete() and the
\* collection is fetched again
IndexCodebaseClear(t) ==
    /\ At(t, "clear")
    /\ store' = AfterClear(store, threads[t].force, delete_all)
    /\ threads' = [threads EXCEPT ![t] =
           IF threads[t].recs = << >> THEN Finished("success")
           ELSE Thread("add", << >>, threads[t].force, threads[t].recs)]
    /\ UNCHANGED <<graph, trace, index_lock, index_thread, file_index_map, is_indexed, delete_all, rag_ops,
                   last_op, synced>>
    /\ UNCHANGED <<wsVars, diffVars, idxVars, ctxVars, retVars, fnVars, memVars, retryVars>>

\* index_codebase: self.collection.add(...) and self.is_indexed = True
IndexCodebaseAdd(t) ==
    /\ At(t, "add")
    /\ t \in FullThreads
    /\ \E a \in {CollectionAdd(store, threads[t].recs)} :
           /\ store' = a.store
           /\ is_indexed' = IF a.raised THEN is_indexed ELSE TRUE
           /\ threads' = [threads EXCEPT ![t] =
                              Finished(IF a.raised THEN "raised" ELSE "success")]
    /\ UNCHANGED <<graph, trace, index_lock, index_thread, file_index_map, delete_all, rag_ops, last_op, synced>>
    /\ UNCHANGED <<wsVars, diffVars, idxVars, ctxVars, retVars, fnVars, memVars, retryVars>>

\* the files the incremental indexer is given
IndexedTargets == {PathX, PathN}

NextLock ==
    \/ \E text \in TextsOf(PathX) : WriteFile(PathX, text)
    \/ \E t \in FileThreads : \E target \in IndexedTargets : IndexFileSafeBegin(t, target)
    \/ \E t \in FileThreads : IndexFileRemoveOld(t)
    \/ \E t \in FileThreads : \E e \in BOOLEAN : IndexFileChunk(t, e)
    \/ \E t \in FileThreads : IndexFileAdd(t)
    \/ \E force \in BOOLEAN : PostIndex(force)
    \/ \E t \in FullThreads : \E o \in FileOrders : \E e \in BOOLEAN :
           IndexCodebaseScan(t, o, e)
    \/ \E t \in FullThreads : IndexCodebaseClear(t)
    \/ \E t \in FullThreads : IndexCodebaseAdd(t)

SpecLock == InitLock /\ [][NextLock]_vars

(***************************************************************************)
(* The incremental indexer given events of the three kinds.  The observer  *)
(* thread and the index thread are threads of the operating system and     *)
(* are scheduled again and again, and time passes: weak fairness of their  *)
(* steps and of the clock.                                                 *)
(***************************************************************************)
\* most file events in one run
LiveEvents == 3

\* the tick after which the user leaves the files alone
LiveEventsUntil == 2

\* the tick at which the clock stops: late enough for the last event to go
\* through the handler behind the events before it, to wait for its delay
\* and to be met by an iteration of the worker
LiveMaxTime ==
    LiveEventsUntil + LiveEvents * HandlerSleepTicks + DebounceTicks + WorkerSleepTicks

\* the kinds of event CodeChangeHandler handles
EventKinds == {"created", "modified", "deleted"}

\* the assistant as the backend brings it up: index_codebase has indexed the
\* watched files, and the incremental indexer is constructed on the result
InitLive ==
    /\ disk = [q \in {ResolvePath(t) : t \in WatchedTargets} |-> ShortA]
    /\ edits = 0
    /\ NewDiffEditor
    /\ \E r \in {index_codebase(RagState({}, EmptyMap, FALSE), disk,
                                 <<ResolvePath(PathX), ResolvePath(PathY)>>,
                                 FALSE, TRUE, FALSE)} :
           /\ store = r.rag.store
           /\ file_index_map = r.rag.file_index_map
           /\ is_indexed = r.rag.is_indexed
           /\ last_op = [op |-> "index_codebase", file |-> << >>, status |-> r.status]
    /\ rag_ops = 1
    /\ synced = Snapshot(disk, DOMAIN disk)
    /\ delete_all = FALSE
    /\ NewIndexer
    /\ NewContextManager
    /\ NewAux

\* the user creates, saves or deletes a watched file while the watcher
\* runs: on_created, on_modified or on_deleted is given the event
WatchedChange(target, kind) ==
    /\ edits < LiveEvents
    /\ now <= LiveEventsUntil
    /\ running
    /\ \/ /\ kind = "created"
          /\ ResolvePath(target) \notin DOMAIN disk
          /\ disk' = MapWith(disk, ResolvePath(target), ShortA)
       \/ /\ kind = "modified"
          /\ ResolvePath(target) \in DOMAIN disk
          /\ disk' = [disk EXCEPT ![ResolvePath(target)] = NextText(@)]
       \/ /\ kind = "deleted"
          /\ ResolvePath(target) \in DOMAIN disk
          /\ disk' = MapWithout(disk, ResolvePath(target))
    /\ edits' = edits + 1
    /\ fs_events' = Append(fs_events, ResolvePath(target))
    /\ event_log' = Append(event_log, [path |-> ResolvePath(target), at |-> now])
    /\ UNCHANGED <<now, running, observer, index_queue, pending_files, pending_tasks,
                   worker, reindex_log>>
    /\ UNCHANGED <<diffVars, ragVars, ctxVars, auxVars>>

\* half a second passes
TickLive ==
    /\ now < LiveMaxTime
    /\ ~ThreadEnabled
    /\ now' = now + 1
    /\ UNCHANGED <<running, fs_events, observer, index_queue, pending_files,
                   pending_tasks, worker, event_log, reindex_log>>
    /\ UNCHANGED <<wsVars, diffVars, ragVars, ctxVars, auxVars>>

\* an iteration of the index thread, whatever the embedding calls do
WorkerStep == \E e \in BOOLEAN : WorkerIterate(e)

NextLive ==
    \/ Start
    \/ Stop
    \/ \E t \in WatchedTargets : \E kind \in EventKinds : WatchedChange(t, kind)
    \/ ObserverTake
    \/ ObserverFire
    \/ WorkerStep
    \/ TickLive

SpecLive ==
    /\ InitLive
    /\ [][NextLive]_vars
    /\ WF_vars(ObserverTake)
    /\ WF_vars(ObserverFire)
    /\ WF_vars(WorkerStep)
    /\ WF_vars(TickLive)

(***************************************************************************)
(* start() and stop() of the incremental indexer and the threads they      *)
(* start.  A thread in _index_worker is at the test of "while              *)
(* self.running", in the body of the loop, inside _index_file_safe for a   *)
(* ready task (which lasts as long as the embedding request does), or has  *)
(* left the loop.  The caller of start() and stop() is the thread "main".  *)
(***************************************************************************)
\* most calls of start() and stop() in one run
MaxStartStops == 4

\* most file changes put on the queue in one run
MaxQueued == 2

\* the names of the threads start() can create in one run
WorkerIds == {"w1", "w2", "w3"}

\* a thread of the model: where it is, its pending_tasks, and the number of
\* index threads that had been started when it last tested self.running
IndexThread(pc, tasks, seen) == [pc |-> pc, tasks |-> tasks, seen |-> seen]

\* the index threads created so far
Workers == DOMAIN threads \ {"main"}

\* the caller is inside stop(), in self.index_thread.join(timeout=2)
Joining == "main" \in DOMAIN threads

InitWorkers ==
    /\ disk \in {CHOOSE w \in Workspaces : TRUE}
    /\ edits = 0
    /\ NewDiffEditor
    /\ NewRagSystem
    /\ delete_all = FALSE
    /\ NewIndexer
    /\ NewContextManager
    /\ NewAux

\* IncrementalIndexer.start(): nothing when running, and else running is
\* set and a thread is created for _index_worker
StartIndexer ==
    /\ Len(trace) < MaxStartStops
    /\ ~Joining
    /\ \E t \in WorkerIds : t \notin Workers
    /\ IF running
       THEN /\ trace' = Append(trace, "start: already running")
            /\ UNCHANGED <<running, threads, index_thread>>
       ELSE \E t \in {CHOOSE u \in WorkerIds : u \notin Workers} :
            /\ running' = TRUE
            /\ threads' = MapWith(threads, t, IndexThread("test", << >>, 0))
            /\ index_thread' = t
            /\ trace' = Append(trace, "start")
    /\ UNCHANGED <<now, fs_events, observer, index_queue, pending_files, pending_tasks,
                   worker, event_log, reindex_log, index_lock, graph>>
    /\ UNCHANGED <<wsVars, diffVars, ragVars, ctxVars, retVars, fnVars, memVars, retryVars>>

\* IncrementalIndexer.stop() up to the join: running is cleared, the
\* watcher is stopped
StopIndexer ==
    /\ Len(trace) < MaxStartStops
    /\ ~Joining
    /\ running' = FALSE
    /\ trace' = Append(trace, "stop")
    /\ threads' = IF index_thread = "none" THEN threads
                  ELSE MapWith(threads, "main", IndexThread("joining", << >>, 0))
    /\ UNCHANGED <<now, fs_events, observer, index_queue, pending_files, pending_tasks,
                   worker, event_log, reindex_log, index_lock, index_thread, graph>>
    /\ UNCHANGED <<wsVars, diffVars, ragVars, ctxVars, retVars, fnVars, memVars, retryVars>>

\* self.index_thread.join(timeout=2) returns: the thread has ended, or 2
\* seconds have passed, which takes a thread that is inside
\* _index_file_safe (a thread in the loop meets the test of self.running
\* within the second it sleeps at most)
JoinReturns ==
    /\ Joining
    /\ threads[index_thread].pc \in {"ended", "busy"}
    /\ threads' = MapWithout(threads, "main")
    /\ UNCHANGED <<graph, trace, index_lock, index_thread>>
    /\ UNCHANGED <<wsVars, diffVars, ragVars, idxVars, ctxVars, retVars, fnVars, memVars,
                   retryVars>>

\* _on_file_changed(file_path) while the watcher runs
FileChanged(target) ==
    /\ running
    /\ edits < MaxQueued
    /\ edits' = edits + 1
    /\ pending_files' = pending_files \cup {target}
    /\ index_queue' = Append(index_queue,
                             QueueItem("index", ResolvePath(target), now + DebounceTicks))
    /\ UNCHANGED <<disk, now, running, fs_events, observer, pending_tasks, worker,
                   event_log, reindex_log>>
    /\ UNCHANGED <<diffVars, ragVars, ctxVars, auxVars>>

\* _index_worker: the test of "while self.running"
WorkerTest(t) ==
    /\ At(t, "test")
    /\ threads' = [threads EXCEPT ![t] =
           IF running THEN IndexThread("body", @.tasks, Cardinality(Workers))
           ELSE IndexThread("ended", << >>, @.seen)]
    /\ UNCHANGED <<graph, trace, index_lock, index_thread>>
    /\ UNCHANGED <<wsVars, diffVars, ragVars, idxVars, ctxVars, retVars, fnVars, memVars,
                   retryVars>>

\* _index_worker: the body of the loop up to the ready tasks: the queue is
\* emptied into pending_tasks; with a task whose time has come (ready: the
\* clock stands still in this specification) the thread enters
\* _index_file_safe, and else it sleeps and comes back to the test
WorkerBody(t, ready) ==
    /\ At(t, "body")
    /\ \E tasks \in {DrainQueue(index_queue, threads[t].tasks)} :
           threads' = [threads EXCEPT ![t] =
               IndexThread(IF ready /\ tasks # << >> THEN "busy" ELSE "test", tasks,
                           @.seen)]
    /\ index_queue' = << >>
    /\ UNCHANGED <<now, running, fs_events, observer, pending_files, pending_tasks,
                   worker, event_log, reindex_log>>
    /\ UNCHANGED <<graph, trace, index_lock, index_thread>>
    /\ UNCHANGED <<wsVars, diffVars, ragVars, ctxVars, retVars, fnVars, memVars, retryVars>>

\* _index_worker: the ready tasks are done and deleted from pending_tasks,
\* the thread sleeps and comes back to the test
WorkerDone(t) ==
    /\ At(t, "busy")
    /\ reindex_log' = Append(reindex_log, [thread |-> t, tasks |-> threads[t].tasks])
    /\ threads' = [threads EXCEPT ![t] = IndexThread("test", << >>, @.seen)]
    /\ UNCHANGED <<now, running, fs_events, observer, index_queue, pending_files,
                   pending_tasks, worker, event_log>>
    /\ UNCHANGED <<graph, trace, index_lock, index_thread>>
    /\ UNCHANGED <<wsVars, diffVars, ragVars, ctxVars, retVars, fnVars, memVars, retryVars>>

NextWorkers ==
    \/ StartIndexer
    \/ StopIndexer
    \/ JoinReturns
    \/ \E target \in WatchedTargets : FileChanged(target)
    \/ \E t \in WorkerIds : WorkerTest(t)
    \/ \E t \in WorkerIds : \E ready \in BOOLEAN : WorkerBody(t, ready)
    \/ \E t \in WorkerIds : WorkerDone(t)

SpecWorkers == InitWorkers /\ [][NextWorkers]_vars

(***************************************************************************)
(* Aggressive truncation: _truncate_aggressively on the message lists      *)
(* assemble_context gives it, the histories holding short and long         *)
(* messages                                                                *)
(***************************************************************************)
\* the token counts of a short and of a long message of a mixed history
MixedSizes == <<400, 3000>>

\* a history of n messages, the user's and the assistant's in turn, every
\* third one long
MixedHistory(n) ==
    [i \in 1..n |-> Message(IF i % 2 = 1 THEN "user" ELSE "assistant",
                            MixedSizes[IF i % 3 = 0 THEN 2 ELSE 1], i)]

\* the calls of assemble_context under which truncation is studied
TruncationCalls ==
    {[system_prompt |-> s, rag_context |-> r, facts |-> f,
      conversation_history |-> h, user_message |-> u, model |-> m] :
     s \in {50, 2000}, r \in RagContextSizes, f \in FactsSizes,
     h \in {MixedHistory(n) : n \in 0..10} \cup {History(n, 1000) : n \in {9, 12}},
     u \in {20, 700}, m \in ModelNames}

InitTrunc ==
    /\ disk \in {CHOOSE w \in Workspaces : TRUE}
    /\ edits = 0
    /\ NewDiffEditor
    /\ NewRagSystem
    /\ delete_all = FALSE
    /\ NewIndexer
    /\ NewContextManager
    /\ NewAux

\* assemble_context reaches "if token_count > max_tokens" with the count
\* above the limit and calls _truncate_aggressively(messages, max_tokens,
\* model)
TruncateCall(call, outcome, summary_tokens) ==
    /\ fn_call = NoResult
    /\ ~SummarizerLogRaises(call, outcome)
    /\ \E messages \in {InitialMessages(call, ThresholdFor(call.model), outcome,
                                        summary_tokens)} :
           /\ CountMessages(messages) > MaxTokensFor(call.model)
           /\ fn_call' = [op |-> "_truncate_aggressively", messages |-> messages,
                          max_tokens |-> MaxTokensFor(call.model),
                          user_message |-> call.user_message]
           /\ fn_result' = TruncateAggressively(messages, MaxTokensFor(call.model))
    /\ UNCHANGED <<wsVars, diffVars, ragVars, idxVars, ctxVars, concVars,
                   retVars, memVars, retryVars>>

NextTrunc ==
    \E call \in TruncationCalls : \E outcome \in SummarizerOutcomes :
        \E summary_tokens \in SummarySizes : TruncateCall(call, outcome, summary_tokens)

SpecTrunc == InitTrunc /\ [][NextTrunc]_vars

(***************************************************************************)
(* Deep validation: validate_diff with the validation service on diffs     *)
(* that put a line that does not parse into a Python file                  *)
(***************************************************************************)
\* the contents the diffs under validation give a file: some parse, some
\* hold a line that does not
DeepContents ==
    {ShortA, ShortB, LongB, MkText(<<"!">>), MkText(<<"p", "!">>),
     MkText(<<"l1", "l2", "l3", "l4", "!", "l6", "l7", "l8", "l9">>)}

InitDeep ==
    /\ disk \in Workspaces
    /\ edits = 0
    /\ NewDiffEditor
    /\ NewRagSystem
    /\ delete_all = FALSE
    /\ NewIndexer
    /\ NewContextManager
    /\ NewAux

\* validate_diff(diff_text, use_validation_service=True) of an editor that
\* has its validation service, on the diff generate_diff writes from the
\* content of a file to new_content
DeepValidateDiff(target, new_content, tools) ==
    /\ fn_call = NoResult
    /\ ResolvePath(target) \in DOMAIN disk
    /\ disk[ResolvePath(target)] # new_content
    /\ \E text \in {generate_diff(disk[ResolvePath(target)], new_content, target)} :
           /\ fn_call' = [op |-> "validate_diff", diff_text |-> text, tools |-> tools]
           /\ fn_result' = validate_diff(disk, text, TRUE, tools)
    /\ UNCHANGED <<wsVars, diffVars, ragVars, idxVars, ctxVars, concVars,
                   retVars, memVars, retryVars>>

NextDeep ==
    \E target \in {PathX, PathY} : \E new_content \in DeepContents :
        \E tools \in ToolOutcomes : DeepValidateDiff(target, new_content, tools)

SpecDeep == InitDeep /\ [][NextDeep]_vars

(***************************************************************************)
(* Code graph: tools/code_graph.py.  A name is the list of its parts, so   *)
(* that "x.py::f" and "f" are different names.  A Python file is given by  *)
(* what ast finds in it: its top-level function definitions, in order,     *)
(* each with the bare names its body calls, in order.                      *)
(***************************************************************************)
\* a function definition of a file
FunctionDef(name, calls) == [name |-> name, calls |-> calls]

\* a Python file of the workspace
SourceFile(file_str, functions) == [file_str |-> file_str, functions |-> functions]

\* f"{file_str}::{name}"
NodeId(file_str, name) == file_str \o <<"::">> \o name

\* SymbolNode(name, file_path, symbol_type) of a function without parent
SymbolNode(name, file_path) ==
    [name |-> name, file_path |-> file_path, symbol_type |-> "function"]

\* GraphEdge(source, target, edge_type)
GraphEdge(source, target, edge_type) ==
    [source |-> source, target |-> target, edge_type |-> edge_type]

\* d[key] = value on a dict kept as the list of its entries
DictSet(d, key, value) ==
    IF \E i \in 1..Len(d) : d[i].key = key
    THEN [i \in 1..Len(d) |-> IF d[i].key = key THEN [key |-> key, value |-> value]
                              ELSE d[i]]
    ELSE Append(d, [key |-> key, value |-> value])

RECURSIVE AddFunctions(_, _, _)
\* CodeGraphBuilder._add_file_symbols: the loop over analysis['functions']
AddFunctions(g, file_str, functions) ==
    IF functions = << >> THEN g
    ELSE AddFunctions([g EXCEPT !.nodes =
                           DictSet(@, NodeId(file_str, Head(functions).name),
                                   SymbolNode(Head(functions).name, file_str))],
                      file_str, Tail(functions))

RECURSIVE VisitCalls(_, _, _)
\* CallGraphVisitor.visit_Call for the calls of the body of the function
\* func_id: an edge from func_id to the called name, which is also added
\* to call_graph[func_id]
VisitCalls(g, func_id, calls) ==
    IF calls = << >> THEN g
    ELSE VisitCalls(
             [g EXCEPT
                 !.edges = Append(@, GraphEdge(func_id, Head(calls), "calls")),
                 !.call_graph =
                     DictSet(@, func_id,
                             (CHOOSE e \in {@[i] : i \in 1..Len(@)} : e.key = func_id).value
                                 \cup {Head(calls)})],
             func_id, Tail(calls))

RECURSIVE VisitFunctionDefs(_, _, _)
\* CallGraphVisitor.visit_FunctionDef for the function definitions of a
\* file: call_graph gets an entry for the function, then its body is
\* visited
VisitFunctionDefs(g, file_str, functions) ==
    IF functions = << >> THEN g
    ELSE With(NodeId(file_str, Head(functions).name), LAMBDA func_id :
             VisitFunctionDefs(
                 VisitCalls(IF \E i \in 1..Len(g.call_graph) : g.call_graph[i].key = func_id
                            THEN g
                            ELSE [g EXCEPT !.call_graph = DictSet(@, func_id, {})],
                            func_id, Head(functions).calls),
                 file_str, Tail(functions)))

RECURSIVE FirstPass(_, _)
\* build_graph: for file_path in files: self._add_file_symbols(file_path)
FirstPass(g, files) ==
    IF files = << >> THEN g
    ELSE FirstPass(AddFunctions(g, Head(files).file_str, Head(files).functions),
                   Tail(files))

RECURSIVE SecondPass(_, _)
\* build_graph: for file_path in files:
\* self._analyze_file_relationships(file_path)
SecondPass(g, files) ==
    IF files = << >> THEN g
    ELSE SecondPass(VisitFunctionDefs(g, Head(files).file_str, Head(files).functions),
                    Tail(files))

\* CodeGraphBuilder.build_graph(files) on the graph g of the builder
build_graph(g, files) == SecondPass(FirstPass(g, files), files)

\* the first node of the graph whose name is name: << >> when there is
\* none, and else the list of that one node
FirstNodeNamed(g, name) ==
    IF \A i \in 1..Len(g.nodes) : g.nodes[i].value.name # name THEN << >>
    ELSE <<g.nodes[CHOOSE i \in 1..Len(g.nodes) :
                       /\ g.nodes[i].value.name = name
                       /\ \A j \in 1..(i - 1) : g.nodes[j].value.name # name].value>>

RECURSIVE RelatedOver(_, _, _, _)
\* the loop of find_related_symbols over self.graph.edges
RelatedOver(g, edges, symbol_name, relationship_types) ==
    IF edges = << >> THEN << >>
    ELSE (IF /\ Head(edges).source = symbol_name \/ Head(edges).target = symbol_name
             /\ Head(edges).edge_type \in relationship_types
          THEN FirstNodeNamed(g, IF Head(edges).source = symbol_name
                                 THEN Head(edges).target ELSE Head(edges).source)
          ELSE << >>)
         \o RelatedOver(g, Tail(edges), symbol_name, relationship_types)

\* CodeGraphBuilder.find_related_symbols(symbol_name, relationship_types)
find_related_symbols(g, symbol_name, relationship_types) ==
    IF FirstNodeNamed(g, symbol_name) = << >> THEN << >>
    ELSE RelatedOver(g, g.edges, symbol_name, relationship_types)

\* relationship_types when the argument is None
DefaultRelationshipTypes == {"calls", "imports", "inherits"}

(***************************************************************************)
(* The code graph at work                                                  *)
(***************************************************************************)
\* the names of the functions of the workspaces, and a builtin
FunctionNames == {<<"f">>, <<"g">>, <<"h">>}

\* the calls the body of a function of the model makes
CallLists == {<< >>, <<<<"g">>>>, <<<<"f">>>>, <<<<"g">>, <<"print">>>>, <<<<"h">>, <<"g">>>>}

\* the workspaces: x.py defines f and g, y.py defines one function
Programs ==
    {<<SourceFile(PathX, <<FunctionDef(<<"f">>, cf), FunctionDef(<<"g">>, cg)>>),
       SourceFile(PathY, <<FunctionDef(n, cn)>>)>> :
     cf \in CallLists, cg \in CallLists, n \in {<<"g">>, <<"h">>}, cn \in CallLists}

InitGraph ==
    /\ disk \in {CHOOSE w \in Workspaces : TRUE}
    /\ edits = 0
    /\ NewDiffEditor
    /\ NewRagSystem
    /\ delete_all = FALSE
    /\ NewIndexer
    /\ NewContextManager
    /\ NewAux

\* CodeGraphBuilder(workspace_path).build_graph(files)
BuildGraph(files) ==
    /\ fn_call = NoResult
    /\ fn_call' = [op |-> "build_graph", files |-> files]
    /\ graph' = build_graph(graph, files)
    /\ UNCHANGED <<fn_result, threads, trace, index_lock, index_thread>>
    /\ UNCHANGED <<wsVars, diffVars, ragVars, idxVars, ctxVars, retVars, memVars, retryVars>>

\* find_related_symbols(symbol_name, relationship_types) on the built graph
FindRelatedSymbols(symbol_name, relationship_types) ==
    /\ fn_call # NoResult
    /\ fn_call.op = "build_graph"
    /\ fn_result = NoResult
    /\ fn_result' = [symbol_name |-> symbol_name,
                     relationship_types |-> relationship_types,
                     related |-> find_related_symbols(graph, symbol_name,
                                                      relationship_types)]
    /\ UNCHANGED <<fn_call, concVars>>
    /\ UNCHANGED <<wsVars, diffVars, ragVars, idxVars, ctxVars, retVars, memVars, retryVars>>

NextGraph ==
    \/ \E files \in Programs : BuildGraph(files)
    \/ \E symbol_name \in FunctionNames :
           \E types \in {{"calls"}, DefaultRelationshipTypes} :
               FindRelatedSymbols(symbol_name, types)

SpecGraph == InitGraph /\ [][NextGraph]_vars

(***************************************************************************)
(* SpecSplit: one call of _split_large_chunk on one chunk                  *)
(***************************************************************************)
ParentLengths == {0, 6}

\* the chunks handed to _split_large_chunk: those of SizedChunks, inside a
\* class or not
SplitInputs ==
    {[chunk EXCEPT !.parent_symbol = parent] :
        chunk \in SizedChunks, parent \in ParentLengths}

\* _split_large_chunk(chunk)
SplitLargeChunkCall(chunk) ==
    /\ fn_call = NoResult
    /\ fn_call' = [op |-> "_split_large_chunk", chunk |-> chunk]
    /\ fn_result' = SplitLargeChunk(chunk)
    /\ UNCHANGED <<wsVars, diffVars, ragVars, idxVars, ctxVars, concVars,
                   retVars, memVars, retryVars>>

NextSplit == \E chunk \in SplitInputs : SplitLargeChunkCall(chunk)

SpecSplit == InitSize /\ [][NextSplit]_vars

(***************************************************************************)
(* SpecBatch: the embedding requests of one indexing, by either entry      *)
(* point; a text is modelled by its length, a request by its texts         *)
(***************************************************************************)
\* batch_size of index_codebase
EmbeddingBatchSize == 50

\* max_chars_per_batch of index_codebase
MaxCharsPerBatch == 30000

\* [self._format_chunk_for_embedding(chunk) for chunk in chunks]
FormattedTexts(chunks) == [i \in 1..Len(chunks) |-> FormattedLength(chunks[i])]

\* the loop of index_codebase over batch_texts from index i on, with the
\* sub-batches closed so far; one step per closed sub-batch: the loop
\* closes current_sub_batch at the first text that would take it over the
\* budget while it is not empty, and appends every text before that one
RECURSIVE SubBatchLoop(_, _, _, _)
SubBatchLoop(batch_texts, i, sub_batches, current_sub_batch) ==
    LET Held(j) == current_sub_batch \o SubSeq(batch_texts, i, j - 1)
        closes == {j \in i..Len(batch_texts) :
                      /\ SumSeq(Held(j)) + batch_texts[j] > MaxCharsPerBatch
                      /\ Held(j) # << >>}
    IN  IF closes = {}
        THEN (IF Held(Len(batch_texts) + 1) # << >>
              THEN Append(sub_batches, Held(Len(batch_texts) + 1))
              ELSE sub_batches)
        ELSE LET k == CHOOSE j \in closes : \A m \in closes : j <= m
             IN  SubBatchLoop(batch_texts, k + 1, Append(sub_batches, Held(k)),
                              <<batch_texts[k]>>)

\* the sub_batches index_codebase makes of one batch
SubBatches(batch_texts) ==
    IF SumSeq(batch_texts) > MaxCharsPerBatch
    THEN SubBatchLoop(batch_texts, 1, << >>, << >>)
    ELSE <<batch_texts>>

\* the inputs of the embeddings.create calls of index_codebase for the
\* processed chunks from index i on
RECURSIVE BatchRequestsFrom(_, _)
BatchRequestsFrom(all_chunks, i) ==
    IF i >= Len(all_chunks) THEN << >>
    ELSE SubBatches(FormattedTexts(PySlice(all_chunks, i, i + EmbeddingBatchSize)))
         \o BatchRequestsFrom(all_chunks, i + EmbeddingBatchSize)

\* the inputs of the embeddings.create calls of index_codebase
CodebaseEmbeddingRequests(all_chunks) ==
    BatchRequestsFrom(ProcessedChunks(all_chunks), 0)

\* the inputs of the embeddings.create calls of index_file
FileEmbeddingRequests(chunks) ==
    IF chunks = << >> THEN << >> ELSE <<FormattedTexts(chunks)>>

MaxChunksPerFile == 3

ContentLengths == {100, 14000, 20000, 40000}

\* a one-line chunk of the given content length
TextChunk(length) == SizedChunk(<<length>>, 1, 0, 0, 8, 5)

\* the chunk lists of an indexing: up to MaxChunksPerFile chunks of any of
\* the lengths, or enough small chunks to fill more than one batch
ChunkLists ==
    UNION {{[i \in 1..n |-> TextChunk(lengths[i])] :
                lengths \in [1..n -> ContentLengths]} : n \in 1..MaxChunksPerFile}
    \cup {[i \in 1..(EmbeddingBatchSize + n) |-> TextChunk(14000)] : n \in 1..2}

\* index_codebase on a workspace whose files give the chunks
IndexCodebaseRequests(chunks) ==
    /\ fn_call = NoResult
    /\ fn_call' = [op |-> "index_codebase", chunks |-> chunks]
    /\ fn_result' = CodebaseEmbeddingRequests(chunks)
    /\ UNCHANGED <<wsVars, diffVars, ragVars, idxVars, ctxVars, concVars,
                   retVars, memVars, retryVars>>

\* index_file on a file that gives the chunks
IndexFileRequests(chunks) ==
    /\ fn_call = NoResult
    /\ fn_call' = [op |-> "index_file", chunks |-> chunks]
    /\ fn_result' = FileEmbeddingRequests(chunks)
    /\ UNCHANGED <<wsVars, diffVars, ragVars, idxVars, ctxVars, concVars,
                   retVars, memVars, retryVars>>

NextBatch ==
    \E chunks \in ChunkLists :
        \/ IndexCodebaseRequests(chunks)
        \/ IndexFileRequests(chunks)

SpecBatch == InitSize /\ [][NextBatch]_vars

(***************************************************************************)
(* SpecEscape: diffs whose header paths name files outside the workspace,  *)
(* on a filesystem that holds one file outside the workspace               *)
(***************************************************************************)
\* a file that exists in the filesystem root, outside the workspace
OutsideFile == <<"/", "out.py">>

\* a file of the filesystem root that does not exist
OutsideNew == <<"/", "new.py">>

\* the content of OutsideFile before any diff
OutsideContent == ShortA

\* the paths a diff header carries after its "a/" or "b/": a workspace file
\* or an absolute path
EscapeTargets == {PathX, PathN, OutsideFile, OutsideNew}

EscapeChoices ==
    {<<c>> : c \in {c \in [target : EscapeTargets, create : BOOLEAN,
                           new : {ShortA, ShortB, ShortC}] :
                        c.create => c.target \in {PathN, OutsideNew}}}

InitEscape ==
    /\ disk \in {[q \in DOMAIN w \cup {OutsideFile} |->
                     IF q = OutsideFile THEN OutsideContent ELSE w[q]] :
                 w \in Workspaces}
    /\ edits = 0
    /\ NewDiffEditor
    /\ NewRagSystem
    /\ delete_all = FALSE
    /\ NewIndexer
    /\ NewContextManager
    /\ NewAux

NextEscape ==
    \/ \E choices \in EscapeChoices : ReceiveDiff(choices)
    \/ ParseDiff
    \/ \E dry_run \in BOOLEAN : ApplyDiffs(dry_run)

SpecEscape == InitEscape /\ [][NextEscape]_vars

(***************************************************************************)
(* Properties of the diff engine, checked under SpecDiff                   *)
(***************************************************************************)
\* the contents of the context and removed lines of a hunk, in order
OldSide(hlines) == SelectSeq(hlines, LAMBDA l : l.op \in {KEEP, REMOVE})

\* the old side of the hunk is what lines holds from line old_start on
HunkMatches(lines, hunk) ==
    /\ hunk.old_start >= 1 \/ hunk.old_count = 0
    /\ hunk.old_start - 1 + Len(OldSide(hunk.lines)) <= Len(lines)
    /\ \A k \in 1..Len(OldSide(hunk.lines)) :
           StripNL(lines[hunk.old_start - 1 + k]) = OldSide(hunk.lines)[k].content

\* every hunk of the file section matches the content the disk holds for
\* the section's target
AppliesCleanly(d, sec) ==
    /\ ResolvePath(sec.target) \in DOMAIN d
    /\ \A k \in 1..Len(sec.hunks) :
           HunkMatches(ReadLines(d[ResolvePath(sec.target)]), sec.hunks[k])

\* the text made of the added lines of the hunks of a file section
AddedText(sec) ==
    Concat([k \in 1..Len(sec.hunks) |-> Concat(HunkNewLines(sec.hunks[k].lines))])

\* C1: an apply_diffs call with dry_run = FALSE that reports a failure for
\* some file diff has modified no file of the workspace.
C1_FailedApplyModifiesNothing ==
    [][ApplyDiffs(FALSE) /\ ~apply_result'.success => disk' = disk]_vars

\* C2: when the file holds old, generate_diff(old, new) followed by
\* parse_diff and apply_diffs (not a dry run) leaves the file holding new.
C2_GenerateParseApplyRoundTrip ==
    (/\ stage = "applied"
     /\ generated # NotGenerated
     /\ applies = 1
     /\ ~dry_runs
     /\ pre_disk[ResolvePath(generated.path)] = generated.old)
    => disk[ResolvePath(generated.path)] = generated.new

\* C3: parse_diff of a diff text with n file sections returns n FileDiffs in
\* the order of the sections, each with the target and exactly the hunks and
\* hunk lines of its own section.
C3_ParseKeepsEverySection ==
    (stage = "parsed" /\ sections # << >>)
    => /\ Len(file_diffs) = Len(sections)
       /\ \A i \in 1..Len(sections) :
              /\ TargetOf(file_diffs[i]) = sections[i].target
              /\ file_diffs[i].hunks = sections[i].hunks

\* C4: apply_diff on a file whose current lines differ from the context or
\* removed lines of some hunk reports failure and leaves the file unchanged.
C4_StaleDiffIsRefused ==
    [][(/\ ApplyDiffs(FALSE)
        /\ Len(sections) = 1
        /\ ~sections[1].create
        /\ ResolvePath(sections[1].target) \in DOMAIN disk
        /\ ~AppliesCleanly(disk, sections[1]))
       => (~apply_result'.success /\ disk' = disk)]_vars

\* C5: validate_diff returns invalid when some hunk of some file section,
\* whatever the place of the section in the diff, has old_start below 1 or
\* above the line count of its target file.
C5_HunkBeyondEofIsInvalid ==
    (/\ valid_result # NoResult
     /\ \E i \in 1..Len(sections) :
            /\ ResolvePath(sections[i].target) \in DOMAIN valid_disk
            /\ \E k \in 1..Len(sections[i].hunks) :
                   \/ sections[i].hunks[k].old_start < 1
                   \/ sections[i].hunks[k].old_start >
                          Len(ReadLines(valid_disk[ResolvePath(sections[i].target)])))
    => ~valid_result.is_valid

\* C6: for a diff whose --- side is /dev/null and whose target does not
\* exist in an existing directory, validate_diff accepts the diff and
\* apply_diffs creates the target holding exactly the added lines.
C6_DevNullCreatesFile ==
    /\ (/\ valid_result # NoResult
        /\ Len(sections) = 1
        /\ sections[1].create
        /\ ResolvePath(sections[1].target) \notin DOMAIN valid_disk)
       => valid_result.is_valid
    /\ (/\ stage = "applied"
        /\ applies = 1
        /\ ~dry_runs
        /\ Len(sections) = 1
        /\ sections[1].create
        /\ ResolvePath(sections[1].target) \notin DOMAIN pre_disk)
       => /\ apply_result.success
          /\ ResolvePath(sections[1].target) \in DOMAIN disk
          /\ disk[ResolvePath(sections[1].target)] = AddedText(sections[1])

\* C18: after a diff that validate_diff accepts on a workspace has been
\* applied to it, applying the same diff again changes no file.
C18_ReapplyChangesNothing ==
    [][(/\ applies = 1 /\ applies' = 2
        /\ ~dry_runs /\ apply_result.success
        /\ valid_result # NoResult /\ valid_result.is_valid
        /\ valid_disk = pre_disk)
       => disk' = disk]_vars

\* the lines of the original file with the range [old_start, old_start +
\* old_count) of every hunk replaced by the new side of the hunk
RECURSIVE PatchOriginal(_, _)
PatchOriginal(lines, hunks) ==
    IF hunks = << >> THEN lines
    ELSE With(hunks[Len(hunks)], LAMBDA h :
            PatchOriginal(PyUpTo(lines, h.old_start - 1) \o HunkNewLines(h.lines)
                              \o PyFrom(lines, h.old_start - 1 + h.old_count),
                          PyUpTo(hunks, Len(hunks) - 1)))

\* the hunks name ranges of the original lines, one after the other
RangesInOrder(lines, hunks) ==
    /\ \A k \in 1..Len(hunks) :
           /\ hunks[k].old_start >= 1 /\ hunks[k].old_count >= 1
           /\ hunks[k].old_start - 1 + hunks[k].old_count <= Len(lines)
    /\ \A k \in 1..(Len(hunks) - 1) :
           hunks[k].old_start + hunks[k].old_count <= hunks[k + 1].old_start

\* C20: when a file diff has two or more hunks and an earlier hunk changes
\* the number of lines, the applied diff has replaced, for every hunk, the
\* lines [old_start, old_start + old_count) of the file as it was before.
C20_LaterHunksAreShifted ==
    (stage = "applied" /\ applies = 1 /\ ~dry_runs /\ apply_result.success) =>
        \A k \in 1..Len(file_diffs) :
            (/\ Len(file_diffs[k].hunks) >= 2
             /\ file_diffs[k].hunks[1].new_count # file_diffs[k].hunks[1].old_count
             /\ \A j \in 1..Len(file_diffs) :
                    TargetOf(file_diffs[j]) = TargetOf(file_diffs[k]) => j = k
             /\ ResolvePath(TargetOf(file_diffs[k])) \in DOMAIN pre_disk
             /\ RangesInOrder(ReadLines(pre_disk[ResolvePath(TargetOf(file_diffs[k]))]),
                              file_diffs[k].hunks))
            => disk[ResolvePath(TargetOf(file_diffs[k]))]
                   = Concat(PatchOriginal(
                         ReadLines(pre_disk[ResolvePath(TargetOf(file_diffs[k]))]),
                         file_diffs[k].hunks))

(***************************************************************************)
(* Properties of the RAG system, checked under SpecRag                     *)
(***************************************************************************)
\* a chunk as the store holds it, without the id of its record
ChunkView(r) ==
    [document |-> r.document, file_path |-> r.file_path, language |-> r.language,
     chunk_type |-> r.chunk_type, start_line |-> r.start_line,
     end_line |-> r.end_line, symbol_name |-> r.symbol_name]

\* the chunks the store holds for a file
ChunksHeld(s, file_path) == {ChunkView(r) : r \in StoredFor(s, RelativeTo(file_path))}

\* the chunks the chunker produces from the file as the disk d has it
ChunksProduced(d, file_path) ==
    {ChunkView(StoreRecord(ChunkFile(d, file_path)[i], 0)) :
        i \in 1..Len(ChunkFile(d, file_path))}

\* the disk made of the contents s has taken down
DiskOf(s) == [p \in {q \in DOMAIN s : s[q].present} |-> s[p].content]

\* C7: after completed index_codebase, index_file and remove_file_from_index
\* operations, for every file whose last indexing operation completed the
\* store holds exactly the chunks the chunker produces from the content the
\* file had at that operation: none stale, none missing, none twice
C7_StoreMatchesChunker ==
    \A p \in DOMAIN synced :
        /\ ChunksHeld(store, p) = ChunksProduced(DiskOf(synced), p)
        /\ Cardinality(StoredFor(store, RelativeTo(p)))
               = Cardinality(ChunksProduced(DiskOf(synced), p))

\* C8: when index_file ends with an error, the store holds for the file
\* either the records it held before the call or the complete set of the
\* records of the new chunks
C8_FailedIndexFileKeepsACompleteSet ==
    [][(rag_ops' = rag_ops + 1 /\ last_op'.op = "index_file"
        /\ last_op'.status = "error")
       => \/ StoredFor(store', RelativeTo(last_op'.file))
                 = StoredFor(store, RelativeTo(last_op'.file))
          \/ ChunksHeld(store', last_op'.file) = ChunksProduced(disk, last_op'.file)
             /\ ChunksProduced(disk, last_op'.file) # {}]_vars

\* C13: the id of a chunk depends only on (file_path, start_line, end_line,
\* symbol_name): whichever of index_codebase and index_file wrote it, and
\* before and after a removal and re-indexing, the records of one such
\* chunk carry one id.
C13_ChunkIdDependsOnIdentityOnly ==
    [][\A r \in store : \A q \in store' :
          r.id.digest = q.id.digest => r.id = q.id]_vars


(***************************************************************************)
(* Properties of the incremental indexer, checked under SpecIdx            *)
(***************************************************************************)
\* the events the watcher was given for a path
EventsOf(p) == {i \in 1..Len(event_log) : event_log[i].path = p}

\* the events that begin a burst of a path: no event of the path comes
\* less than the debounce delay before them
BurstStarts(p) ==
    {i \in EventsOf(p) :
        \A j \in EventsOf(p) : j < i => event_log[i].at - event_log[j].at >= DebounceTicks}

\* the tasks the worker processed for a path
ReindexesOf(p) == {k \in 1..Len(reindex_log) : reindex_log[k].file_path = p}

\* the indexer runs and has nothing left to do for the events it was given
Quiescent ==
    /\ running
    /\ worker.pc = "waiting"
    /\ observer.pc = "idle"
    /\ fs_events = << >>
    /\ index_queue = << >>
    /\ pending_tasks = << >>

\* the last task the worker processed for a path succeeded
LastReindexSucceeded(p) ==
    /\ ReindexesOf(p) # {}
    /\ \E k \in ReindexesOf(p) : /\ \A j \in ReindexesOf(p) : j <= k
                                 /\ reindex_log[k].status = "success"

\* the k-th smallest number of a set of numbers
Nth(S, k) == CHOOSE x \in S : Cardinality({y \in S : y < x}) = k - 1

\* the last event of the k-th burst of a path
BurstEnd(p, k) ==
    CHOOSE i \in EventsOf(p) :
        /\ i >= Nth(BurstStarts(p), k)
        /\ \A j \in EventsOf(p) :
               j > i => (k < Cardinality(BurstStarts(p)) /\ j >= Nth(BurstStarts(p), k + 1))

\* C9: a burst of events for one path, consecutive ones less than the
\* debounce delay apart, causes one reindex of the path: the k-th reindex
\* of the path starts no earlier than the delay after the last event of its
\* k-th burst, there are never more reindexes than bursts, and once the
\* indexer has nothing left to do there are as many, the store holding the
\* chunks of the final content
C9_OneReindexPerBurst ==
    \A p \in DOMAIN disk :
        /\ Cardinality(ReindexesOf(p)) <= Cardinality(BurstStarts(p))
        /\ \A k \in 1..Cardinality(ReindexesOf(p)) :
               k <= Cardinality(BurstStarts(p))
               => reindex_log[Nth(ReindexesOf(p), k)].at
                      >= event_log[BurstEnd(p, k)].at + DebounceTicks
        /\ Quiescent
           => /\ Cardinality(ReindexesOf(p)) = Cardinality(BurstStarts(p))
              /\ LastReindexSucceeded(p) => ChunksHeld(store, p) = ChunksProduced(disk, p)


(***************************************************************************)
(* Properties of the context manager, checked under SpecCtx                *)
(***************************************************************************)
\* C10: the token_count of the message list assemble_context returns is at
\* most the max_tokens of the model's regime, whatever the user message, the
\* history, the RAG context, the system prompt and the summarizer's outcome
C10_ContextFitsBudget ==
    (ctx_result # NoResult /\ ~ctx_result.raised)
    => ctx_result.token_count <= MaxTokensFor(ctx_call.model)

(***************************************************************************)
(* Properties of retrieval, checked under SpecRet                          *)
(***************************************************************************)
\* C11: for every combination of the hybrid and graph flags, retrieve(query,
\* k) on an indexed store returns at most k chunks, in non-increasing order
\* of the re-rank composite score.
C11_RetrieveReturnsTopKReranked ==
    (ret_call # NoResult /\ ret_call.is_indexed) =>
        /\ Len(ret_result) <= ret_call.top_k
        /\ \A i \in 1..(Len(ret_result) - 1) :
               RerankScore(ret_result[i], ret_call.query)
                   >= RerankScore(ret_result[i + 1], ret_call.query)

(***************************************************************************)
(* Properties of the embedded sizes, checked under SpecSize                *)
(***************************************************************************)
\* C12: every chunk written to the store by index_codebase or index_file
\* has a formatted embedding input of at most 8000 estimated tokens
\* (len // 4).
C12_WrittenChunksWithinTokenLimit ==
    (fn_call # NoResult /\ fn_call.op \in {"index_codebase", "index_file"}) =>
        \A i \in 1..Len(fn_result) :
            EstimateTokens(FormattedLength(fn_result[i])) <= EmbeddingTokenLimit

(***************************************************************************)
(* Properties of the memory, checked under SpecMem                         *)
(***************************************************************************)
\* C14: within a session, after update_memory and the fact saving of
\* assemble_context, get_relevant_facts(S) never returns two facts with
\* the same content.
C14_NoDuplicateFacts ==
    \A session_id \in SessionIds :
        \A i, j \in 1..Len(GetRelevantFacts(facts_table, session_id)) :
            i # j => GetRelevantFacts(facts_table, session_id)[i].content
                         # GetRelevantFacts(facts_table, session_id)[j].content

(***************************************************************************)
(* Properties of the validation service, checked under SpecVal             *)
(***************************************************************************)
\* C15: validate_file reports valid exactly when the syntax is valid and no
\* issue has error severity: a file without issues is valid (also when the
\* tools are absent), warnings do not invalidate, any error does.
C15_ValidIffSyntaxValidAndNoError ==
    (fn_call # NoResult /\ fn_call.op = "validate_file") =>
        (fn_result.valid <=>
            /\ fn_result.syntax_valid
            /\ \A i \in 1..Len(fn_result.issues) : fn_result.issues[i] # "error")

(***************************************************************************)
(* Properties of the summarizer, checked under SpecSum                     *)
(***************************************************************************)
\* C16: when the LLM call of the summarizer raises, summarize_messages
\* returns no summary and the full input list, unchanged, as
\* recent_messages: the same as with no provider configured.
C16_FailedSummaryKeepsAllMessages ==
    (fn_call # NoResult /\ fn_call.op = "summarize_messages"
     /\ fn_call.outcome = "llm_raises") =>
        /\ ~fn_result.raised
        /\ fn_result.summary_message = << >>
        /\ fn_result.recent_messages = fn_call.messages

(***************************************************************************)
(* Properties of the retry wrapper, checked under SpecRetry                *)
(***************************************************************************)
\* C17: a call wrapped by retry_api_call(max_attempts=3) invokes the
\* function at most 3 times, waits 2 s before the second attempt and 4 s
\* before the third, returns the first successful result without further
\* attempts, and raises after the third failure; only transient errors are
\* retried, a permanent error is surfaced without retry.
C17_RetryThreeTimesTransientOnly ==
    wrapper.max_attempts = ApiMaxAttempts =>
        /\ Len(func_calls) <= 3
        /\ \A i \in 1..Len(sleeps) : sleeps[i] = (IF i = 1 THEN 2 ELSE 4)
        /\ Len(sleeps) <= 2
        /\ wrapper.pc = "attempting" => Len(sleeps) = Len(func_calls)
        /\ \A i \in 1..Len(func_calls) :
              /\ func_calls[i] = "returns" =>
                     wrapper.pc = "returned" /\ i = Len(func_calls)
              /\ func_calls[i] \in PermanentErrors =>
                     wrapper.pc = "raised" /\ i = Len(func_calls)
        /\ (Len(func_calls) = 3 /\ func_calls[3] # "returns") => wrapper.pc = "raised"

InsideUnit(t, p) ==
    /\ t \in DOMAIN threads
    /\ \/ t \in FileThreads /\ threads[t].pc \in {"chunk", "add"} /\ threads[t].file = p
       \/ t \in FullThreads /\ threads[t].pc = "add" /\ threads[t].force

\* every chunk the store holds for p was cut from one content of the file
OneVersionHeld(p) ==
    \E text \in TextsOf(RelativeTo(p)) :
        ChunksHeld(store, p) \subseteq ChunksProduced([q \in {p} |-> text], p)

\* the threads started have all finished
AllFinished == \A t \in DOMAIN threads : threads[t].pc = "done"

\* C21: two index operations on the same file never interleave: no thread
\* deletes the old chunks of a file while another thread is between its own
\* delete and its insert for that file, and when the threads have finished
\* the store holds the chunks of one version of the file only
C21_IndexOperationsDoNotInterleave ==
    \A p \in {ResolvePath(t) : t \in Targets} :
        /\ \A t, u \in DOMAIN threads :
               t # u => ~(InsideUnit(t, p) /\ InsideUnit(u, p))
        /\ AllFinished => OneVersionHeld(p)

\* C29: at most one full index_codebase run executes at a time, and a
\* POST /api/index that arrives while a run started by an earlier request
\* is still executing is answered "already_indexing" and starts no thread
C29_OneFullIndexAtATime ==
    /\ Cardinality(FullRunning) <= 1
    /\ \A i \in 1..Len(trace) :
           trace[i].running # {} =>
               trace[i].status = "already_indexing" /\ trace[i].started = {}

(***************************************************************************)
(* Properties of the incremental indexer given events of the three kinds,  *)
(* checked under SpecLive                                                  *)
(***************************************************************************)
\* a later event of the watcher is for the path of the i-th event
FurtherEvent(i) ==
    \E j \in (i + 1)..Len(event_log) : event_log[j].path = event_log[i].path

\* what _index_file_safe can report of index_file
IndexStatuses == {"success", "error", "no_chunks"}

\* the worker processed the path of the i-th event at or after the event's
\* deadline: index_file for a file that exists, and for a file that was
\* deleted the removal of its chunks, none of which the store holds
ProcessedAfterDeadline(i) ==
    \E k \in ReindexesOf(event_log[i].path) :
        /\ reindex_log[k].at >= event_log[i].at + DebounceTicks
        /\ IF event_log[i].path \in DOMAIN disk
           THEN reindex_log[k].status \in IndexStatuses
           ELSE /\ reindex_log[k].status \notin IndexStatuses
                /\ StoredFor(store, RelativeTo(event_log[i].path)) = {}

\* C22: while the incremental indexer is running, every watcher event
\* (created, modified or deleted) for a path is eventually followed by a
\* processing of the path that starts after the event's deadline of 2
\* seconds, unless a further event for the path arrives: the file is
\* reindexed if it exists, its chunks are removed if it was deleted
C22_EveryEventIsProcessed ==
    \A i \in 1..LiveEvents :
        (Len(event_log) >= i)
            ~> (/\ Len(event_log) >= i
                /\ (~running \/ FurtherEvent(i) \/ ProcessedAfterDeadline(i)))

\* the indexer is running and has removed the chunks of a file it had
\* indexed, after the deadline of the event that deleted the file
C22_Witness ==
    /\ running
    /\ \E i \in 1..Len(event_log) :
           /\ ~FurtherEvent(i)
           /\ event_log[i].path \notin DOMAIN disk
           /\ ProcessedAfterDeadline(i)
           /\ \E k \in ReindexesOf(event_log[i].path) : reindex_log[k].status = "removed"

(***************************************************************************)
(* Properties of start() and stop(), checked under SpecWorkers             *)
(***************************************************************************)
\* the threads inside the loop of _index_worker: they found self.running
\* set at their last test, made after the last start()
InsideLoop ==
    {t \in Workers : /\ threads[t].pc \in {"body", "busy"}
                     /\ threads[t].seen = Cardinality(Workers)}

\* C23: after any sequence of start() and stop() calls at most one index
\* worker loop is running: a start() while running creates no thread, and a
\* start() after a stop() whose join timed out does not leave two worker
\* loops on the same queue
C23_AtMostOneWorkerLoop ==
    /\ Cardinality(InsideLoop) <= 1
    /\ \A i \in 1..Len(trace) :
           trace[i] = "start: already running" => i > 1 /\ trace[i - 1] # "stop"

(***************************************************************************)
(* Properties of aggressive truncation, checked under SpecTrunc            *)
(***************************************************************************)
\* the messages of a list that have, or have not, the role "system"
SystemOf(messages) == SelectSeq(messages, LAMBDA m : m.role = "system")

NonSystemOf(messages) == SelectSeq(messages, LAMBDA m : m.role # "system")

\* the number of messages of the history the truncation kept
HistoryKept == Len(fn_result) - Len(SystemOf(fn_call.messages)) - 1

\* C24: the list aggressive truncation returns holds every system message
\* first, then a contiguous suffix of the non-system history in its
\* original order (no older message kept while a newer one is dropped),
\* and the latest user message as its last element
C24_TruncationKeepsSystemSuffixAndUser ==
    (fn_call # NoResult /\ fn_call.op = "_truncate_aggressively") =>
        /\ HistoryKept \in 0..(Len(NonSystemOf(fn_call.messages)) - 1)
        /\ SubSeq(fn_result, 1, Len(SystemOf(fn_call.messages)))
               = SystemOf(fn_call.messages)
        /\ SubSeq(fn_result, Len(SystemOf(fn_call.messages)) + 1, Len(fn_result) - 1)
               = SubSeq(NonSystemOf(fn_call.messages),
                        Len(NonSystemOf(fn_call.messages)) - HistoryKept,
                        Len(NonSystemOf(fn_call.messages)) - 1)
        /\ fn_result[Len(fn_result)]
               = Message("user", fn_call.user_message, "user_message")

\* a truncation that kept a part of a history of short and long messages
\* and dropped the rest, a short message being among the dropped ones
C24_Witness ==
    /\ fn_call # NoResult
    /\ fn_call.op = "_truncate_aggressively"
    /\ HistoryKept > 0
    /\ HistoryKept < Len(NonSystemOf(fn_call.messages)) - 1
    /\ Len(SystemOf(fn_call.messages)) > 1
    /\ \E i \in 1..(Len(NonSystemOf(fn_call.messages)) - 1 - HistoryKept) :
           NonSystemOf(fn_call.messages)[i].tokens = MixedSizes[1]

(***************************************************************************)
(* Properties of deep validation, checked under SpecDeep                   *)
(***************************************************************************)
\* the content the file of the k-th file diff has once the diffs are
\* applied
ContentAfter(d, fds, k) ==
    apply_diffs(d, fds, FALSE).disk[ResolvePath(TargetOf(fds[k]))]

\* applying the diffs leaves the Python file of the k-th file diff with a
\* syntax error
LeavesSyntaxError(d, fds, k) ==
    /\ Suffix(TargetOf(fds[k])) = ".py"
    /\ ResolvePath(TargetOf(fds[k])) \in DOMAIN apply_diffs(d, fds, FALSE).disk
    /\ ~PythonParses(ContentAfter(d, fds, k))

\* C25: with the validation service available, validate_diff validates the
\* content every file has after the diff: a diff whose resulting Python
\* file has a syntax error is reported invalid, for validation errors
C25_SyntaxErrorAfterDiffIsInvalid ==
    (fn_call # NoResult /\ fn_call.op = "validate_diff") =>
        \A k \in 1..Len(parse_diff(fn_call.diff_text)) :
            LeavesSyntaxError(disk, parse_diff(fn_call.diff_text), k)
                => /\ ~fn_result.is_valid
                   /\ fn_result.error = "Validation errors"

(***************************************************************************)
(* Properties of the code graph, checked under SpecGraph                   *)
(***************************************************************************)
\* the body of a function named f of the files calls the bare name g
BodyCalls(files, f, g) ==
    \E i \in 1..Len(files) : \E j \in 1..Len(files[i].functions) :
        /\ files[i].functions[j].name = f
        /\ \E k \in 1..Len(files[i].functions[j].calls) :
               files[i].functions[j].calls[k] = g

\* the list of nodes holds a node of the name
HoldsNodeNamed(nodes, name) == \E i \in 1..Len(nodes) : nodes[i].name = name

\* C26: in a built code graph, if the body of function f calls the bare
\* name g and both have nodes, find_related_symbols(f, ["calls"]) contains
\* the node of g and find_related_symbols(g, ["calls"]) contains the node
\* of f
C26_CallRelatesBothWays ==
    (fn_call # NoResult /\ fn_call.op = "build_graph") =>
        \A f, g \in FunctionNames :
            (/\ BodyCalls(fn_call.files, f, g)
             /\ FirstNodeNamed(graph, f) # << >>
             /\ FirstNodeNamed(graph, g) # << >>)
            => /\ HoldsNodeNamed(find_related_symbols(graph, f, {"calls"}), g)
               /\ HoldsNodeNamed(find_related_symbols(graph, g, {"calls"}), f)

(***************************************************************************)
(* Properties of the chunk splitting, checked under SpecSplit              *)
(***************************************************************************)
\* C27: when _split_large_chunk splits a chunk that has a symbol_name into
\* several sub-chunks, the first sub-chunk carries that symbol_name, every
\* later one has none, and all keep the original file_path, chunk_type and
\* parent_symbol.
C27_FirstSubChunkKeepsSymbol ==
    (/\ fn_call # NoResult
     /\ fn_call.op = "_split_large_chunk"
     /\ fn_call.chunk.symbol_name > 0
     /\ Len(fn_result) > 1) =>
        /\ fn_result[1].symbol_name = fn_call.chunk.symbol_name
        /\ \A i \in 2..Len(fn_result) : fn_result[i].symbol_name = 0
        /\ \A i \in 1..Len(fn_result) :
            /\ fn_result[i].file_path = fn_call.chunk.file_path
            /\ fn_result[i].chunk_type = fn_call.chunk.chunk_type
            /\ fn_result[i].parent_symbol = fn_call.chunk.parent_symbol

(***************************************************************************)
(* Properties of the embedding requests, checked under SpecBatch           *)
(***************************************************************************)
\* C28: every embedding request of index_codebase or index_file that
\* carries more than one text has a total payload of at most 30,000
\* characters.
C28_MultiTextRequestWithinBudget ==
    (fn_call # NoResult /\ fn_call.op \in {"index_codebase", "index_file"}) =>
        \A r \in 1..Len(fn_result) :
            Len(fn_result[r]) > 1 => SumSeq(fn_result[r]) <= MaxCharsPerBatch

(***************************************************************************)
(* Properties of the written paths, checked under SpecEscape               *)
(***************************************************************************)
\* C30: apply_diff and apply_diffs only write to files inside the workspace
\* root: whatever path a diff header carries, no file outside the workspace
\* is created or overwritten.
C30_WritesStayInsideWorkspace ==
    \A q \in DOMAIN disk :
        ~IsUnderWorkspace(q) => q = OutsideFile /\ disk[q] = OutsideContent

============================================================================
